---- MODULE Spec2Model ----
(***************************************************************************)
(* A model of full-server.py: the shared file registry and statistics,     *)
(* the per-connection HTTP handler threads, the request decoder of         *)
(* http_helpers.py at the level of request lines, header lines and body    *)
(* parts, the two accept threads, the diagnostic (back-end) handler and    *)
(* the main thread waiting on the crash condition.                         *)
(*                                                                         *)
(* A "with <condition>:" block of the code that performs no socket I/O is  *)
(* one atomic step, enabled only while the lock is free.  The lock         *)
(* variables show an owner only where the code keeps the lock across a     *)
(* blocking write to a socket or to a file.                                *)
(***************************************************************************)
EXTENDS Integers, Sequences, FiniteSets, TLC

\* ------------------------------------------------------------------ bounds
MaxConns == 2
MaxRequests == 2
MaxDataLen == 2
MaxStreamLen == 7
MaxParts == 2
MaxHeaderLines == 3
MaxPairs == 3

Conns == 1..MaxConns
FileNames == {"a", "b"}
ShareNames == FileNames \cup {"c"}
DataLens == 1..MaxDataLen

NoFile == -1
Free == <<"free", 0>>
HttpThread(c) == <<"http", c>>
BackendThread == <<"backend", 1>>

VARIABLES
    local_file_names,        \* full-server.py:89
    local_file_sizes,        \* full-server.py:90
    share,                   \* the ./share/ directory: name -> size, NoFile if absent
    num_connections_so_far,  \* full-server.py:93
    num_connections_now,     \* full-server.py:94
    num_local_files,         \* full-server.py:95
    num_uploads,             \* full-server.py:96
    num_downloads,           \* full-server.py:97
    file_updates,            \* owner of the file_updates lock
    stats_updates,           \* owner of the stats_updates lock
    crash_updates,           \* number of notify_all calls made on crash_updates
    conn,                    \* per connection: the HTTPConnection and its handler thread
    listener,                \* the two accept threads and their listening sockets
    main,                    \* the main thread of run_full_server
    backend,                 \* the diagnostic connection and its handler thread
    echo,                    \* echoserver.py: the connection being handled
    parsed,                  \* http_helpers.py: the last call of a parsing function
    step                     \* what the last step did with the locks (see Did)

registry_vars == <<local_file_names, local_file_sizes, share>>
stats_vars == <<num_connections_so_far, num_connections_now, num_local_files,
                num_uploads, num_downloads>>
lock_vars == <<file_updates, stats_updates>>
server_vars == <<crash_updates, listener, main, backend>>
vars == <<local_file_names, local_file_sizes, share, num_connections_so_far,
          num_connections_now, num_local_files, num_uploads, num_downloads,
          file_updates, stats_updates, crash_updates, conn, listener, main, backend,
          echo, parsed, step>>

\* ------------------------------------------------------ locks and conditions
(* step records, for the last step of a thread of full-server.py, which      *)
(* conditions the thread held while it touched shared variables, which       *)
(* groups of shared variables it read, and on which conditions it called     *)
(* notify_all before it released them.  It is recorded only in a             *)
(* specification that starts with the record switched on (LockSpec); in the  *)
(* others it stays NotRecorded.                                              *)
NotRecorded == [held |-> {"-"}, read |-> {}, notified |-> {}]

Did(held, read, notified) ==
    step' = IF step = NotRecorded THEN NotRecorded
            ELSE [held |-> held, read |-> read, notified |-> notified]

Nothing == Did({}, {}, {})

\* no parsing function has been called
NotParsed == [fn |-> "", input |-> <<>>, output |-> <<>>]

\* ------------------------------------------------------------- sequences
Range(s) == {s[i] : i \in 1..Len(s)}

\* list.index(x): the first position holding x
IndexOf(s, x) == CHOOSE i \in 1..Len(s) : s[i] = x /\ \A j \in 1..(i - 1) : s[j] # x

\* del list[i]
DelAt(s, i) == [j \in 1..(Len(s) - 1) |-> IF j < i THEN s[j] ELSE s[j + 1]]

Count(s, x) == Cardinality({i \in 1..Len(s) : s[i] = x})

\* ------------------------------------------------- http_helpers.py: decoding
(* A request on the wire:                                                   *)
(*   eof      the peer closes the stream before the header terminator       *)
(*   tokens   the pieces of the request line, firstline.split(" ", 2)       *)
(*   dir,name the request target: dir is its prefix up to the last "/",     *)
(*            name the rest ("/view/" and "a" for /view/a)                  *)
(*   headers  the header lines: a field (name lower-cased, as the           *)
(*            CaseInsensitiveDict compares it), a continuation line, or a   *)
(*            line with no colon                                            *)
(*   avail    how many body bytes arrive before the stream ends             *)
(*   pairs    the key=value pairs of a URL-encoded body                     *)
(*   parts    the sections of a multipart body                              *)

Field(n, v) == [kind |-> "field", name |-> n, val |-> v]
Continuation(v) == [kind |-> "cont", name |-> "", val |-> v]
NoColon == [kind |-> "junk", name |-> "", val |-> ""]

Part(field, disp, filename, len) ==
    [field |-> field, disp |-> disp, filename |-> filename, len |-> len]

\* str.lower() on the header values the model uses
Lower(s) == CASE s = "Keep-Alive" -> "keep-alive"
              [] s = "KEEP-ALIVE" -> "keep-alive"
              [] s = "Connection" -> "connection"
              [] s = "CONNECTION" -> "connection"
              [] OTHER -> s

\* int(s): the number, or -1 where int() raises ValueError
IntOf(s) == IF \E n \in 0..(2 * MaxDataLen) : ToString(n) = s
            THEN CHOOSE n \in 0..(2 * MaxDataLen) : ToString(n) = s
            ELSE -1

\* ", ".join of two header values: a value is the sequence of the pieces joined
JoinComma(v, w) == v \o w

\* parse_http_headers: [ok, d]; d maps a header name to its value
RECURSIVE parse_http_headers_from(_, _, _, _)
parse_http_headers_from(lines, i, key, d) ==
    IF i > Len(lines) THEN [ok |-> TRUE, d |-> d]
    ELSE LET line == lines[i] IN
         CASE line.kind = "cont" ->
                  \* d[key] = d[key] + ", " + line.strip(): KeyError without a key
                  IF key \in DOMAIN d
                  THEN parse_http_headers_from(lines, i + 1, key,
                           (key :> JoinComma(d[key], <<line.val>>)) @@ d)
                  ELSE [ok |-> FALSE, d |-> d]
           [] line.kind = "junk" ->
                  \* key, val = line.split(":", 1) raises ValueError
                  [ok |-> FALSE, d |-> d]
           [] OTHER ->
                  IF line.name \in DOMAIN d
                  THEN parse_http_headers_from(lines, i + 1, line.name,
                           (line.name :> JoinComma(d[line.name], <<line.val>>)) @@ d)
                  ELSE parse_http_headers_from(lines, i + 1, line.name,
                           (line.name :> <<line.val>>) @@ d)

parse_http_headers(lines) == parse_http_headers_from(lines, 1, "", <<>>)

\* a header value as one string, when it is a single piece
Single(v) == IF Len(v) = 1 THEN v[1] ELSE "joined"

\* form_content values: a string, one uploaded part, or a list of parts
StrValue(s) == [tag |-> "str", items |-> <<>>, str |-> s]
OneValue(p) == [tag |-> "one", items |-> <<p>>, str |-> ""]
ListValue(ps) == [tag |-> "list", items |-> ps, str |-> ""]
Absent == [tag |-> "none", items |-> <<>>, str |-> ""]

Get(d, k) == IF k \in DOMAIN d THEN d[k] ELSE Absent

\* parse_urlencoded_params on key=value pairs (no key of the model ends in [])
RECURSIVE parse_urlencoded_params_from(_, _, _)
parse_urlencoded_params_from(pairs, i, d) ==
    IF i > Len(pairs) THEN d
    ELSE parse_urlencoded_params_from(pairs, i + 1,
             (pairs[i][1] :> StrValue(pairs[i][2])) @@ d)

parse_urlencoded_params(pairs) == parse_urlencoded_params_from(pairs, 1, <<>>)

\* the name that parse_content_disposition returns when it finds no name="
\* in the header: Python's None
NoName == "None"

\* parse_content_disposition: the (name, filename) of a section, by the kind
\* of its Content-Disposition header:
\*   "ok"        form-data; name="<field>"; filename="<filename>"
\*   "bad"       a value that does not start with form-data;
\*   "noname"    form-data; with neither name=" nor filename=" in it
\*   "fileonly"  form-data; filename="<filename>": find('name="') hits the
\*               end of the word filename
\*   "missing"   the section has no Content-Disposition header
parse_content_disposition(p) ==
    CASE p.disp = "bad" -> [name |-> "field", filename |-> "unknown-file.txt"]
      [] p.disp = "noname" -> [name |-> NoName, filename |-> "unknown-file.txt"]
      [] p.disp = "fileonly" -> [name |-> p.filename, filename |-> p.filename]
      [] OTHER -> [name |-> p.field, filename |-> p.filename]

\* name.endswith("[]") and name[0:-2], on the field names the model uses
EndsWithBrackets(n) == n = "files[]"
StripBrackets(n) == IF n = "files[]" THEN "files" ELSE n

\* parse_multipart_form_data over the sections of the body: [ok, d]
RECURSIVE parse_multipart_from(_, _, _)
parse_multipart_from(parts, i, d) ==
    IF i > Len(parts) THEN [ok |-> TRUE, d |-> d, exc |-> ""]
    ELSE LET p == parts[i] IN
         IF p.disp = "missing"
         THEN [ok |-> FALSE, d |-> d, exc |-> "KeyError"]   \* headers["Content-Disposition"]
         ELSE LET cd == parse_content_disposition(p)
                  part == [filename |-> cd.filename, len |-> p.len]
              IN IF cd.name = NoName
                 THEN [ok |-> FALSE, d |-> d, exc |-> "AttributeError"]  \* None.endswith
                 ELSE IF EndsWithBrackets(cd.name)
                 THEN LET k == StripBrackets(cd.name)
                          old == IF k \in DOMAIN d THEN d[k].items ELSE <<>>
                      IN IF k \in DOMAIN d /\ d[k].tag # "list"
                         THEN [ok |-> FALSE, d |-> d, exc |-> "AttributeError"]  \* no append
                         ELSE parse_multipart_from(parts, i + 1,
                                  (k :> ListValue(Append(old, part))) @@ d)
                 ELSE parse_multipart_from(parts, i + 1,
                             (cd.name :> OneValue(part)) @@ d)

parse_multipart_form_data(ctype, parts) ==
    CASE ctype = "multipart/form-data" ->
               [ok |-> FALSE, d |-> <<>>, exc |-> "IndexError"]  \* split(";", 1)[1]
      [] ctype = "multipart/form-data; charset=utf-8" -> [ok |-> TRUE, d |-> <<>>, exc |-> ""]
      [] OTHER -> parse_multipart_from(parts, 1, <<>>)

\* a decoder that takes every body for a multipart form
AnyTypeIsMultipart(ctype) == TRUE

IsUrlEncoded(ctype) == ctype = "application/x-www-form-urlencoded"
IsMultipart(ctype) == ctype \in {"multipart/form-data", "multipart/form-data; charset=utf-8",
                                 "multipart/form-data; boundary=X"}

NoRequest ==
    [tag |-> "none", method |-> "", dir |-> "", name |-> "", keep_alive |-> FALSE,
     content_length |-> 0, form_content |-> <<>>]

\* SmartSocket.recv_exactly(n) on a stream that delivers avail more bytes
recv_exactly_ok(n, avail) == n <= avail

\* The exception, if any, raised inside the second try block of
\* recv_one_request_from_client ("" when the request decodes).
DecodeError(w) ==
    IF Len(w.tokens) < 3 THEN "ValueError"
    ELSE LET h == parse_http_headers(w.headers) IN
    IF ~h.ok
    THEN (IF \E i \in 1..Len(w.headers) : w.headers[i].kind = "junk"
          THEN "ValueError" ELSE "KeyError")
    ELSE IF "content-length" \notin DOMAIN h.d THEN ""
    ELSE LET n == IntOf(Single(h.d["content-length"])) IN
    IF n < 0 THEN "ValueError"
    ELSE IF ~recv_exactly_ok(n, w.avail) THEN "ShortRead"
    ELSE IF n > 0 /\ "content-type" \in DOMAIN h.d
            /\ ~IsUrlEncoded(Lower(Single(h.d["content-type"])))
            /\ IsMultipart(Lower(Single(h.d["content-type"])))
    THEN (IF Single(h.d["content-type"]) = "multipart/form-data" THEN "IndexError"
          ELSE parse_multipart_form_data(Single(h.d["content-type"]), w.parts).exc)
    ELSE ""

\* The HTTPRequest built by the second try block when nothing raises
Decoded(w) ==
    LET h == parse_http_headers(w.headers).d
        n == IF "content-length" \in DOMAIN h THEN IntOf(Single(h["content-length"])) ELSE 0
        ctype == IF "content-type" \in DOMAIN h THEN Single(h["content-type"]) ELSE ""
    IN [tag |-> "req",
        method |-> w.tokens[1],
        dir |-> w.dir,
        name |-> w.name,
        keep_alive |-> "connection" \in DOMAIN h
                       /\ Lower(Single(h["connection"])) = "keep-alive",
        content_length |-> n,
        form_content |->
            IF n > 0 /\ "content-type" \in DOMAIN h
            THEN (IF IsUrlEncoded(Lower(ctype)) THEN parse_urlencoded_params(w.pairs)
                  ELSE IF IsMultipart(Lower(ctype))
                  THEN parse_multipart_form_data(ctype, w.parts).d
                  ELSE <<>>)
            ELSE <<>>]

\* a first try block whose except clause catches nothing
RecvExceptNothing(e) == FALSE

\* a second try block that catches ValueError only
DecodeExceptValueError(e) == e = "ValueError"

\* "except Exception as err: ... return None" of the first try block
RecvExcept(e) == TRUE

\* "except Exception as err: ... return None" of the second try block
DecodeExcept(e) == TRUE

None == [NoRequest EXCEPT !.tag = "none"]
Raised == [NoRequest EXCEPT !.tag = "raise"]

\* What SmartSocket.recv_until(b"\r\n\r\n") can do: it returns the header block
\* ("data"), or, when the stream closes before the terminator, it returns no
\* bytes ("empty") or raises ("raise").
RecvUntil(w) == IF w.eof THEN {"empty", "raise"} ELSE {"data"}

\* recv_one_request_from_client: the request, None, or an escaping exception
recv_one_request_from_client(w, how) ==
    IF w.eof
    THEN (IF how = "raise" /\ ~RecvExcept("ConnectionClosed") THEN Raised ELSE None)
    ELSE LET e == DecodeError(w) IN
         IF e = "" THEN Decoded(w)
         ELSE IF DecodeExcept(e) THEN None
         ELSE Raised

\* --------------------------------- http_helpers.py: multipart bodies in full
(* A multipart body as the sequence of its pieces.  Every piece has the      *)
(* shape of a header line, [kind, name, val] with val a sequence of strings: *)
(* a byte of data or of the framing (kind "byte"), or a whole header line of *)
(* a section (kind "field", its name lower-cased).  The boundary is X.       *)
Byte(b) == [kind |-> "byte", name |-> "", val |-> <<b>>]
CR == Byte("r")
LF == Byte("n")
Sep == Byte("--X")
Dashes == Byte("--")
section_start == <<Sep, CR, LF>>
message_end == <<Sep, Dashes, CR, LF>>

\* a section without a Content-Type header: mimetype = None
NoMimetype == "None"
DefaultFilename == "unknown-file.txt"

\* bytes.find(pat, from) + 1 over pieces
FindFrom(s, pat, from) ==
    LET at == {i \in from..(Len(s) - Len(pat) + 1) : SubSeq(s, i, i + Len(pat) - 1) = pat}
    IN IF at = {} THEN 0 ELSE CHOOSE i \in at : \A j \in at : i <= j

\* bytes.partition(pat): (s, empty, empty) when pat is not in s
Partition(s, pat) ==
    LET i == FindFrom(s, pat, 1)
    IN IF i = 0 THEN [before |-> s, found |-> FALSE, after |-> <<>>]
       ELSE [before |-> SubSeq(s, 1, i - 1), found |-> TRUE,
             after |-> SubSeq(s, i + Len(pat), Len(s))]

StartsWith(s, pat) == Len(s) >= Len(pat) /\ SubSeq(s, 1, Len(pat)) = pat

\* str.split("\r\n") over pieces: the lines between the CR LF pairs
RECURSIVE SplitCRLF(_)
SplitCRLF(s) ==
    LET p == Partition(s, <<CR, LF>>)
    IN IF p.found THEN <<p.before>> \o SplitCRLF(p.after) ELSE <<s>>

\* the header lines of a section up to the first empty line, as
\* parse_http_headers reads them: a header line, or a line with no colon
SectionLines(s) ==
    LET lines == SplitCRLF(s)
        stop == IF \E i \in 1..Len(lines) : lines[i] = <<>>
                THEN (CHOOSE i \in 1..Len(lines) :
                          lines[i] = <<>> /\ \A j \in 1..(i - 1) : lines[j] # <<>>) - 1
                ELSE Len(lines)
    IN [i \in 1..stop |->
           IF Len(lines[i]) = 1 /\ lines[i][1].kind = "field" THEN lines[i][1]
           ELSE [kind |-> "junk", name |-> "", val |-> <<>>]]

\* parse_content_disposition on the words of the header value.  The word
\* filename=" holds name=" too, so find('name="') stops at whichever of the
\* two comes first.
parse_content_disposition_words(disp) ==
    LET bad == [name |-> "field", filename |-> DefaultFilename]
        names == {i \in 1..Len(disp) : disp[i] \in {"name=\"", "filename=\""}}
        files == {i \in 1..Len(disp) : disp[i] = "filename=\""}
        First(S) == CHOOSE i \in S : \A j \in S : i <= j
        Quote(i) == FindFrom(disp, <<"\"">>, i + 1)
    IN IF disp = <<>> \/ disp[1] # "form-data;" THEN bad
       ELSE IF names # {} /\ Quote(First(names)) = 0 THEN bad
       ELSE IF files # {} /\ Quote(First(files)) = 0 THEN bad
       ELSE [name |-> IF names = {} THEN NoName
                      ELSE IF Quote(First(names)) = First(names) + 1 THEN ""
                      ELSE disp[First(names) + 1],
             filename |-> IF files = {} THEN DefaultFilename
                          ELSE IF Quote(First(files)) = First(files) + 1 THEN ""
                          ELSE disp[First(files) + 1]]

\* MultipartFormData(fieldname, mimetype, filename, data)
MultipartFormData(fieldname, mimetype, filename, data) ==
    [fieldname |-> fieldname, mimetype |-> mimetype, filename |-> filename, data |-> data]

\* parse_multipart_form_data, lines 185-215: the while loop over the sections
RECURSIVE parse_multipart_sections(_, _)
parse_multipart_sections(body, d) ==
    IF ~StartsWith(body, section_start) THEN [ok |-> TRUE, d |-> d, exc |-> "", body |-> body]
    ELSE LET hb == Partition(SubSeq(body, Len(section_start) + 1, Len(body)),
                             <<CR, LF, CR, LF>>)
             db == Partition(hb.after, <<CR, LF, Sep>>)
             rest == <<Sep>> \o db.after
             h == parse_http_headers(SectionLines(hb.before))
         IN IF ~h.ok THEN [ok |-> FALSE, d |-> d, exc |-> "ValueError", body |-> rest]
            ELSE IF "content-disposition" \notin DOMAIN h.d
            THEN [ok |-> FALSE, d |-> d, exc |-> "KeyError", body |-> rest]
            ELSE LET mimetype == IF "content-type" \in DOMAIN h.d
                                 THEN (IF Len(h.d["content-type"]) = 1
                                       THEN h.d["content-type"][1] ELSE <<"joined">>)
                                 ELSE <<NoMimetype>>
                     cd == parse_content_disposition_words(
                               IF Len(h.d["content-disposition"]) = 1
                               THEN h.d["content-disposition"][1] ELSE <<>>)
                     p == MultipartFormData(cd.name, mimetype, cd.filename, db.before)
                 IN IF cd.name = NoName
                    THEN [ok |-> FALSE, d |-> d, exc |-> "AttributeError", body |-> rest]
                    ELSE IF EndsWithBrackets(cd.name)
                    THEN LET name == StripBrackets(cd.name) IN
                         IF name \in DOMAIN d /\ d[name].tag # "list"
                         THEN \* d[name] is one MultipartFormData: it has no append
                              [ok |-> FALSE, d |-> d, exc |-> "AttributeError", body |-> rest]
                         ELSE parse_multipart_sections(rest,
                                  (name :> ListValue(Append(Get(d, name).items, p))) @@ d)
                    ELSE parse_multipart_sections(rest, (cd.name :> OneValue(p)) @@ d)

\* parse_multipart_form_data(ctype, contents) for the ctype
\* "multipart/form-data; boundary=X"
parse_multipart_contents(contents) == parse_multipart_sections(contents, <<>>)

\* the parts held in a parsed form, as a set
PartsOf(d) == UNION {Range(d[k].items) : k \in DOMAIN d}

\* The body a browser builds from a sequence of parts (RFC 7578): for each
\* part the boundary line, Content-Disposition with name and, if the part has
\* one, filename, Content-Type if the part has one, an empty line, the data;
\* then the closing boundary line.
EncodedDisposition(p) ==
    <<"form-data;", "name=\"">> \o (IF p.fieldname = "" THEN <<>> ELSE <<p.fieldname>>)
    \o <<"\"">>
    \o (IF p.filename = NoName THEN <<>>
        ELSE <<"filename=\"">> \o (IF p.filename = "" THEN <<>> ELSE <<p.filename>>)
             \o <<"\"">>)

RECURSIVE encode_multipart(_)
encode_multipart(ps) ==
    IF ps = <<>> THEN message_end
    ELSE LET p == Head(ps) IN
         section_start
         \o <<[kind |-> "field", name |-> "content-disposition", val |-> EncodedDisposition(p)]>>
         \o (IF p.mimetype = <<NoMimetype>> THEN <<>>
             ELSE <<CR, LF, [kind |-> "field", name |-> "content-type", val |-> p.mimetype]>>)
         \o <<CR, LF, CR, LF>> \o p.data \o <<CR, LF>>
         \o encode_multipart(Tail(ps))

\* ------------------------------------ http_helpers.py: header blocks in full
(* A header line as the sequence of its pieces: " " and "\t" are white       *)
(* space, ":" is the colon, ",", a comma, any other string is a run of       *)
(* other text (a header name or a word of a value).                          *)
WhiteSpace == {" ", "\t"}

\* str.strip()
RECURSIVE strip(_)
strip(s) == IF s = <<>> THEN s
            ELSE IF Head(s) \in WhiteSpace THEN strip(Tail(s))
            ELSE IF s[Len(s)] \in WhiteSpace THEN strip(SubSeq(s, 1, Len(s) - 1))
            ELSE s

\* the key as CaseInsensitiveDict compares it: key.lower()
LowerKey(key) == [i \in 1..Len(key) |-> CASE key[i] \in {"Host", "HOST"} -> "host"
                                          [] key[i] = "X" -> "x"
                                          [] OTHER -> Lower(key[i])]

\* a joined value without the comma
JoinWithSpace(v, w) == v \o <<" ">> \o w

\* d[key] + ", " + w
JoinCommaSpace(v, w) == v \o <<",", " ">> \o w

\* parse_http_headers, lines 134-150, on the lines of headers.split("\r\n");
\* d maps the lower-cased key to the value
RECURSIVE parse_header_lines(_, _, _, _)
parse_header_lines(lines, i, key, d) ==
    IF i > Len(lines) \/ lines[i] = <<>> THEN [ok |-> TRUE, d |-> d, exc |-> ""]
    ELSE LET line == lines[i] IN
         IF line[1] \in WhiteSpace
         THEN (IF LowerKey(key) \in DOMAIN d
               THEN parse_header_lines(lines, i + 1, key,
                        (LowerKey(key) :> JoinCommaSpace(d[LowerKey(key)], strip(line))) @@ d)
               ELSE [ok |-> FALSE, d |-> d, exc |-> "KeyError"])
         ELSE IF FindFrom(line, <<":">>, 1) = 0
         THEN [ok |-> FALSE, d |-> d, exc |-> "ValueError"]
         ELSE LET c == FindFrom(line, <<":">>, 1)
                  k == strip(SubSeq(line, 1, c - 1))
                  val == strip(SubSeq(line, c + 1, Len(line)))
              IN IF LowerKey(k) \in DOMAIN d
                 THEN parse_header_lines(lines, i + 1, k,
                          (LowerKey(k) :> JoinCommaSpace(d[LowerKey(k)], val)) @@ d)
                 ELSE parse_header_lines(lines, i + 1, k, (LowerKey(k) :> val) @@ d)

\* the header lines the model parses: name, colon, value; or white space and text
HeaderLineKinds ==
    {<<n, ":">> \o v : n \in {"Host", "HOST", "X"},
                       v \in {<<>>, <<" ", "v">>, <<"v", " ", "w", " ">>}}
    \cup {<<ws>> \o t : ws \in WhiteSpace, t \in {<<"c">>, <<" ", "c", "\t">>}}

RECURSIVE HeaderBlocks(_)
HeaderBlocks(n) == IF n = 0 THEN {<<>>}
                   ELSE LET S == HeaderBlocks(n - 1)
                        IN S \cup {Append(s, l) : s \in {x \in S : Len(x) = n - 1},
                                                  l \in HeaderLineKinds}

\* recv_one_request_from_client, line 271: parse_http_headers(headers)
parse_http_headers_call(lines) ==
    /\ parsed.fn = ""
    /\ parsed' = [fn |-> "parse_http_headers", input |-> lines,
                  output |-> parse_header_lines(lines, 1, <<>>, <<>>)]
    /\ UNCHANGED <<registry_vars, stats_vars, lock_vars, server_vars, conn, echo, step>>

\* ----------------------------------- http_helpers.py: query strings in full
(* A query string as the sequence of its parts between the "&"; a part is    *)
(* [eq, key, val]: whether it holds "=", and the pieces before and after     *)
(* the first "=".  A piece is a character, "+", or a percent escape.         *)
\* urllib.parse.unquote_plus
unquote_plus(s) == [i \in 1..Len(s) |-> CASE s[i] = "+" -> " "
                                          [] s[i] = "%5B" -> "["
                                          [] s[i] = "%5D" -> "]"
                                          [] s[i] = "%41" -> "A"
                                          [] OTHER -> s[i]]

\* key.endswith("[]") and key[0:-2] on a decoded key
EndsInBrackets(key) == Len(key) >= 2 /\ SubSeq(key, Len(key) - 1, Len(key)) = <<"[", "]">>
WithoutBrackets(key) == SubSeq(key, 1, Len(key) - 2)

\* the values of d: a string, or a list of strings
UrlStr(v) == [tag |-> "str", items |-> <<v>>]
UrlList(vs) == [tag |-> "list", items |-> vs]

\* parse_urlencoded_params, lines 110-122
RECURSIVE parse_param_parts(_, _, _)
parse_param_parts(parts, i, d) ==
    IF i > Len(parts) THEN [ok |-> TRUE, d |-> d, exc |-> ""]
    ELSE IF ~parts[i].eq THEN parse_param_parts(parts, i + 1, d)
    ELSE LET key == unquote_plus(parts[i].key)
             val == unquote_plus(parts[i].val)
         IN IF EndsInBrackets(key)
            THEN LET k == WithoutBrackets(key) IN
                 IF k \notin DOMAIN d
                 THEN parse_param_parts(parts, i + 1, (k :> UrlList(<<val>>)) @@ d)
                 ELSE IF d[k].tag # "list"
                 THEN [ok |-> FALSE, d |-> d, exc |-> "AttributeError"]  \* str has no append
                 ELSE parse_param_parts(parts, i + 1,
                          (k :> UrlList(Append(d[k].items, val))) @@ d)
            ELSE parse_param_parts(parts, i + 1, (key :> UrlStr(val)) @@ d)

ParamParts ==
    {[eq |-> TRUE, key |-> k, val |-> v] :
        k \in {<<"a">>, <<"a", "[", "]">>, <<"b", "%5B", "%5D">>, <<"b">>},
        v \in {<<"1">>, <<"x", "+", "%41">>, <<>>}}
    \cup {[eq |-> FALSE, key |-> <<"a">>, val |-> <<>>]}

RECURSIVE ParamStrings(_)
ParamStrings(n) == IF n = 0 THEN {<<>>}
                   ELSE LET S == ParamStrings(n - 1)
                        IN S \cup {Append(s, p) : s \in {x \in S : Len(x) = n - 1},
                                                  p \in ParamParts}

\* recv_one_request_from_client, lines 277 and 302: parse_urlencoded_params
parse_urlencoded_params_call(parts) ==
    /\ parsed.fn = ""
    /\ parsed' = [fn |-> "parse_urlencoded_params", input |-> parts,
                  output |-> parse_param_parts(parts, 1, <<>>)]
    /\ UNCHANGED <<registry_vars, stats_vars, lock_vars, server_vars, conn, echo, step>>

\* ------------------------------------------------ the Connection header
\* recv_one_request_from_client, line 287: req.keep_alive
req_keep_alive(lines) ==
    LET h == parse_header_lines(lines, 1, <<>>, <<>>)
    IN /\ h.ok
       /\ <<"connection">> \in DOMAIN h.d
       /\ LowerKey(h.d[<<"connection">>]) = <<"keep-alive">>

\* echoserver.py, get_header_value(headers, "Connection"): what follows the
\* first space of the first line that starts with "connection: " in lower
\* case; <<"None">> if there is no such line
get_header_value(headers) ==
    LET at == {i \in 1..Len(headers) :
                  StartsWith(LowerKey(headers[i]), <<"connection", ":", " ">>)}
        hdr == headers[CHOOSE i \in at : \A j \in at : i <= j]
    IN IF at = {} THEN <<"None">>
       ELSE SubSeq(hdr, FindFrom(hdr, <<" ">>, 1) + 1, Len(hdr))

\* echoserver.py, has_keepalive(headers), on header lines given as pieces
has_keepalive_pieces(headers) ==
    /\ get_header_value(headers) # <<"None">>
    /\ LowerKey(get_header_value(headers)) = <<"keep-alive">>

\* header blocks with at most one Connection header, before or after a Host header
ConnectionLines ==
    {<<n>> \o sep \o <<v>> \o trail :
        n \in {"Connection", "CONNECTION"},
        sep \in {<<":", " ">>, <<":">>, <<":", " ", " ">>},
        v \in {"keep-alive", "Keep-Alive", "close"},
        trail \in {<<>>, <<" ">>}}

ConnectionBlocks ==
    {<<>>, <<<<"Host", ":", " ", "v">>>>}
    \cup {<<l>> : l \in ConnectionLines}
    \cup {<<<<"Host", ":", " ", "v">>, l>> : l \in ConnectionLines}
    \cup {<<l, <<"Host", ":", " ", "v">>>> : l \in ConnectionLines}

\* both servers decide whether the connection stays open after the request
keep_alive_call(lines) ==
    /\ parsed.fn = ""
    /\ parsed' = [fn |-> "keep_alive", input |-> lines,
                  output |-> [req |-> req_keep_alive(lines),
                              echoserver |-> has_keepalive_pieces(lines)]]
    /\ UNCHANGED <<registry_vars, stats_vars, lock_vars, server_vars, conn, echo, step>>

\* ------------------------------------------------------ the request body
\* a recv_exactly that returns whatever has arrived
recv_everything(stream, n) == [ok |-> TRUE, data |-> stream, rest |-> <<>>]

\* SmartSocket.recv_exactly(n) on a stream that ends after the bytes of
\* stream: the first n bytes, the others staying unread; ShortRead if the
\* stream ends first
recv_exactly(stream, n) ==
    IF n <= Len(stream)
    THEN [ok |-> TRUE, data |-> SubSeq(stream, 1, n), rest |-> SubSeq(stream, n + 1, Len(stream))]
    ELSE [ok |-> FALSE, data |-> <<>>, rest |-> <<>>]

\* recv_one_request_from_client, lines 288-293: req.content_length and
\* req.content for a request whose Content-Length header is cl ("" if it has
\* none), when the bytes of stream follow the header terminator
request_content(cl, stream) ==
    IF cl = "" THEN [ok |-> TRUE, content_length |-> 0, content |-> <<>>, rest |-> stream]
    ELSE IF IntOf(cl) < 0
    THEN [ok |-> FALSE, content_length |-> 0, content |-> <<>>, rest |-> stream]  \* int(): ValueError
    ELSE LET r == recv_exactly(stream, IntOf(cl))
         IN [ok |-> r.ok, content_length |-> IntOf(cl), content |-> r.data, rest |-> r.rest]

\* Content-Length values, and the bytes that follow the header terminator
\* before the stream ends: "b" a byte of a body, "G" a byte of a next request
ContentLengths == {""} \cup {ToString(n) : n \in 0..(MaxDataLen + 1)}

RECURSIVE BodyStreamsUpTo(_)
BodyStreamsUpTo(n) == IF n = 0 THEN {<<>>}
                      ELSE LET S == BodyStreamsUpTo(n - 1)
                           IN S \cup {Append(s, b) : s \in {x \in S : Len(x) = n - 1},
                                                     b \in {"b", "G"}}
BodyStreams == BodyStreamsUpTo(MaxDataLen + 1)

request_content_call(cl, stream) ==
    /\ parsed.fn = ""
    /\ parsed' = [fn |-> "request_content", input |-> [cl |-> cl, stream |-> stream],
                  output |-> request_content(cl, stream)]
    /\ UNCHANGED <<registry_vars, stats_vars, lock_vars, server_vars, conn, echo, step>>

\* the parts a body is built from
PartData == {<<>>, <<Byte("d")>>, <<CR, LF, CR, LF, Byte("d")>>, <<Dashes, Byte("d"), CR, LF>>}

MultipartParts ==
    {MultipartFormData(n, m, f, data) :
        n \in {"f", "files", "files[]"}, m \in {<<NoMimetype>>, <<"text/plain">>},
        f \in {NoName, "a"}, data \in PartData}

RECURSIVE PartSeqs(_)
PartSeqs(n) == IF n = 0 THEN {<<>>}
               ELSE LET S == PartSeqs(n - 1)
                    IN S \cup {Append(s, p) : s \in {x \in S : Len(x) = n - 1},
                                              p \in MultipartParts}

\* a request handler calls parse_multipart_form_data on the body built from ps
parse_multipart_form_data_call(ps) ==
    /\ parsed.fn = ""
    /\ parsed' = [fn |-> "parse_multipart_form_data", input |-> ps,
                  output |-> parse_multipart_contents(encode_multipart(ps))]
    /\ UNCHANGED <<registry_vars, stats_vars, lock_vars, server_vars, conn, echo, step>>

\* ------------------------- http_helpers.py: the section loop, byte by byte
(* A body as a sequence of bytes: "-", "r" (CR), "n" (LF), "X", "d" (any     *)
(* other byte of data) and "H", which stands for the bytes of the line       *)
(* Content-Disposition: form-data; name="f" (no CR, no LF, no "--" in it).   *)
(* The boundary is a sequence of bytes too: empty, or X.                     *)
MaxChunks == 5

\* len() of a body in bytes
RECURSIVE len(_)
len(s) == IF s = <<>> THEN 0 ELSE (IF Head(s) = "H" THEN 40 ELSE 1) + len(Tail(s))

\* bytes.split(pat)
RECURSIVE split(_, _)
split(s, pat) ==
    LET p == Partition(s, pat)
    IN IF p.found THEN <<p.before>> \o split(p.after, pat) ELSE <<s>>

\* lines 192-207 on the header bytes of one section: the exception they end
\* in, or "".  parse_http_headers stops at an empty line and raises ValueError
\* on a line without a colon; headers["Content-Disposition"] raises KeyError
\* when no line has that name.
section_exc(headers) ==
    LET lines == split(headers, <<"r", "n">>)
        stop == IF \E i \in 1..Len(lines) : lines[i] = <<>>
                THEN (CHOOSE i \in 1..Len(lines) :
                          lines[i] = <<>> /\ \A j \in 1..(i - 1) : lines[j] # <<>>) - 1
                ELSE Len(lines)
    IN IF \E i \in 1..stop : "H" \notin Range(lines[i]) THEN "ValueError"
       ELSE IF \A i \in 1..stop : Head(lines[i]) # "H" THEN "KeyError"
       ELSE ""

\* a pass that puts back as many bytes as it took
pass_without_progress(body, sep) == <<"d">> \o Tail(body)

\* lines 187-190: one pass of the loop cuts the section off the body
\* [headers, body]: the section's header bytes and the body left for the
\* next pass
next_section(body, sep) ==
    LET hb == Partition(SubSeq(body, Len(sep) + 3, Len(body)), <<"r", "n", "r", "n">>)
        db == Partition(hb.after, <<"r", "n">> \o sep)
    IN [headers |-> hb.before, body |-> sep \o db.after]

\* "body = sep + body" of line 190
next_body(body, sep) == next_section(body, sep).body

\* lines 181-215: the while loop.  passes: the body before the first pass and
\* after each pass; exc: the exception that ended the loop, or "".
RECURSIVE section_loop(_, _, _)
section_loop(body, sep, passes) ==
    IF ~StartsWith(body, sep \o <<"r", "n">>) THEN [passes |-> passes, exc |-> ""]
    ELSE LET rest == next_body(body, sep)
             exc == section_exc(next_section(body, sep).headers)
         IN IF exc # "" THEN [passes |-> Append(passes, rest), exc |-> exc]
            ELSE section_loop(rest, sep, Append(passes, rest))

\* the boundaries and the bodies of LoopSpec: up to MaxChunks pieces, each a
\* section start, a separator, a line end, an empty line or a single byte
Boundaries == {<<>>, <<"X">>}

Chunks(boundary) ==
    {<<"-", "-">> \o boundary \o <<"r", "n">>, <<"-", "-">> \o boundary,
     <<"r", "n">>, <<"r", "n", "r", "n">>, <<"H">>, <<"d">>, <<"-">>}

RECURSIVE Bodies(_, _)
Bodies(boundary, n) ==
    IF n = 0 THEN {<<>>}
    ELSE LET S == Bodies(boundary, n - 1)
         IN S \cup {s \o ch : s \in S, ch \in Chunks(boundary)}

\* parse_multipart_form_data(ctype, contents) with the boundary of ctype
parse_multipart_form_data_loop(boundary, contents) ==
    /\ parsed.fn = ""
    /\ parsed' = [fn |-> "parse_multipart_form_data: while",
                  input |-> <<boundary, contents>>,
                  output |-> section_loop(contents, <<"-", "-">> \o boundary, <<contents>>)]
    /\ UNCHANGED <<registry_vars, stats_vars, lock_vars, server_vars, conn, echo, step>>

\* ------------------- http_helpers.py: the boundary of a multipart Content-Type
(* A Content-Type value as the sequence of its pieces: the media type, ";",  *)
(* " ", a parameter name with its "=" ("boundary=", "Boundary=",             *)
(* "charset="), the double quote, and runs of other text.                    *)

\* parse_multipart_form_data, lines 172-179: the boundary marker of ctype.
\* split(";", 1)[1] raises IndexError when ctype has no ";";
\* lower().startswith("boundary=") accepts the name in any case.
boundary_of(ctype) ==
    LET i == FindFrom(ctype, <<";">>, 1)
        ctype_params == strip(SubSeq(ctype, i + 1, Len(ctype)))
        boundary == Tail(ctype_params)
    IN IF i = 0 THEN [exc |-> "IndexError", found |-> FALSE, boundary |-> <<>>]
       ELSE IF ctype_params = <<>> \/ ctype_params[1] \notin {"boundary=", "Boundary="}
       THEN [exc |-> "", found |-> FALSE, boundary |-> <<>>]
       ELSE IF boundary # <<>> /\ Head(boundary) = "\"" /\ boundary[Len(boundary)] = "\""
       THEN [exc |-> "", found |-> TRUE, boundary |-> SubSeq(boundary, 2, Len(boundary) - 1)]
       ELSE [exc |-> "", found |-> TRUE, boundary |-> boundary]

\* recv_one_request_from_client, lines 296-313, for a multipart request:
\* req.form_content, or None when parse_multipart_form_data raises.
\* b: the boundary marker found in the Content-Type; form: what the section
\* loop returns for the body with the boundary X.  With any other boundary
\* the body does not start with section_start and the loop makes no pass.
form_content_of(b, form) ==
    IF b.exc # "" THEN [req |-> "None", exc |-> b.exc, boundary |-> <<>>, d |-> <<>>]
    ELSE IF ~b.found THEN [req |-> "HTTPRequest", exc |-> "", boundary |-> <<>>, d |-> <<>>]
    ELSE IF b.boundary # <<"X">>
    THEN [req |-> "HTTPRequest", exc |-> "", boundary |-> b.boundary, d |-> <<>>]
    ELSE [req |-> IF form.ok THEN "HTTPRequest" ELSE "None", exc |-> form.exc,
          boundary |-> b.boundary, d |-> IF form.ok THEN form.d ELSE <<>>]

\* parse_multipart_form_data(ctype, contents) as recv_one_request_from_client
\* calls it, for a body built with the boundary X
multipart_form_content(ctype, contents) ==
    form_content_of(boundary_of(ctype), parse_multipart_contents(contents))

\* the Content-Type values of multipart requests
MultipartTypes ==
    {<<"multipart/form-data">>,
     <<"multipart/form-data", ";">>,
     <<"multipart/form-data", ";", " ", "charset=", "utf-8">>,
     <<"multipart/form-data", ";", " ", "charset=", "utf-8", ";", " ", "boundary=", "X">>,
     <<"multipart/form-data", ";", " ", "boundary=", "X">>,
     <<"multipart/form-data", ";", "Boundary=", "X">>,
     <<"multipart/form-data", ";", " ", "boundary=", "\"", "X", "\"">>,
     <<"multipart/form-data", ";", " ", "boundary=", "X", ";", " ", "charset=", "utf-8">>}

\* a multipart request with Content-Type ctype and the body built from ps is decoded
multipart_form_content_call(ctype, ps) ==
    /\ parsed.fn = ""
    /\ parsed' = [fn |-> "recv_one_request_from_client: multipart",
                  input |-> <<ctype, ps>>,
                  output |-> multipart_form_content(ctype, encode_multipart(ps))]
    /\ UNCHANGED <<registry_vars, stats_vars, lock_vars, server_vars, conn, echo, step>>

\* ------------------------------------------------------ requests on the wire
KeepAlive == <<Field("connection", "Keep-Alive")>>
Close == <<Field("connection", "close")>>

Wire(method, dir, name, headers) ==
    [eof |-> FALSE, tokens |-> <<method, "target", "HTTP/1.1">>, dir |-> dir,
     name |-> name, headers |-> headers, avail |-> 0, pairs |-> <<>>, parts |-> <<>>]

Eof == [Wire("", "", "", <<>>) EXCEPT !.eof = TRUE, !.tokens = <<>>]

UrlEncoded(w, pairs) ==
    [w EXCEPT !.headers = @ \o <<Field("content-length", "1"),
                                 Field("content-type", "application/x-www-form-urlencoded")>>,
              !.avail = 1, !.pairs = pairs]

RECURSIVE SumLen(_)
SumLen(parts) == IF parts = <<>> THEN 0 ELSE Head(parts).len + SumLen(Tail(parts))

Multipart(w, parts) ==
    [w EXCEPT !.headers = @ \o <<Field("content-length", ToString(SumLen(parts))),
                                 Field("content-type", "multipart/form-data; boundary=X")>>,
              !.avail = SumLen(parts), !.parts = parts]

Upload(f, n) == Part("files[]", "ok", f, n)

\* a request whose body holds the bytes of the multipart sections parts, with
\* the Content-Type headers ctype
Body(w, ctype, parts) ==
    [w EXCEPT !.headers = @ \o <<Field("content-length", ToString(SumLen(parts)))>> \o ctype,
              !.avail = SumLen(parts), !.parts = parts]

\* the requests that decode
GoodWires(h) ==
    {Wire("GET", "/", "", h), Wire("GET", "/", "index.html", h),
     Wire("POST", "/", "", h), Wire("GET", "/", "upload", h),
     Wire("GET", "/", "shared-files.html", h),
     Wire("GET", "/", "dashboard.html", h), Wire("GET", "/", "fileshare.css", h),
     Wire("GET", "/", "nope", h), Wire("POST", "/", "delete", h),
     Wire("POST", "/", "upload", h)}
    \cup {Wire("GET", "/view/", f, h) : f \in FileNames}
    \cup {Wire("GET", "/download/", f, h) : f \in FileNames}
    \cup {Wire("POST", "/delete/", f, h) : f \in FileNames}
    \cup {UrlEncoded(Wire("POST", "/", "delete", h), <<<<"filename", f>>>>) : f \in FileNames}
    \cup {Multipart(Wire("POST", "/", "upload", h), <<Upload(f, n)>>) :
              f \in FileNames, n \in DataLens}
    \cup {Multipart(Wire("POST", "/", "upload", h), <<Upload("a", 1), Upload("b", MaxDataLen)>>),
          Multipart(Wire("POST", "/", "upload", h), <<Upload("a", MaxDataLen), Upload("a", 1)>>),
          Multipart(Wire("POST", "/", "upload", h), <<Part("files", "ok", "a", 1)>>),
          Multipart(Wire("POST", "/", "upload", h),
                    <<Part("files[]", "bad", "a", 1), Upload("b", 1)>>),
          Body(Wire("POST", "/", "upload", h), <<Field("content-type", "image/png")>>,
               <<Upload("b", 1)>>),
          Body(Wire("POST", "/", "upload", h), <<>>, <<Upload("b", 1)>>)}

\* the requests the decoder rejects
BadWires ==
    {[Wire("GET", "/", "", KeepAlive) EXCEPT !.tokens = <<"GET">>],
     [Wire("GET", "/", "", KeepAlive) EXCEPT !.headers = <<NoColon>>],
     [Wire("GET", "/", "", KeepAlive) EXCEPT !.headers = <<Continuation("x")>>],
     [Wire("POST", "/", "upload", KeepAlive) EXCEPT
          !.headers = @ \o <<Field("content-length", "abc")>>],
     [Multipart(Wire("POST", "/", "upload", KeepAlive), <<Upload("a", MaxDataLen)>>)
          EXCEPT !.avail = MaxDataLen - 1],
     Multipart(Wire("POST", "/", "upload", KeepAlive), <<Part("files[]", "missing", "a", 1)>>),
     Multipart(Wire("POST", "/", "upload", KeepAlive),
               <<Part("files[]", "noname", "a", 1), Upload("b", 1)>>)}

Wires == GoodWires(KeepAlive) \cup GoodWires(Close) \cup GoodWires(<<>>) \cup BadWires

\* ------------------------------------------------ full-server.py: responses
NoResponse == [n |-> 0, code |-> 0, status |-> <<>>]
Response(n, code, status) == [n |-> n, code |-> code, status |-> status]

NoSuchFile == "No such file"
RemovedFile == "Success, removed file"
ProblemRemoving == "Problem removing file"
AlreadyThere == "You have a file named already"
AddedFile == "Success, added file"
ProblemStoring == "Problem storing data in local file"
NoFilenameForm == "Sorry, form with filename wasn't submitted."
NoFileForm == "Sorry, form with file wasn't submitted."

static_file_names == {"fileshare.css"}

\* ------------------------------------------- full-server.py: HTTP connections
IdleConn ==
    [pc |-> "idle", sock |-> "none", keep_alive |-> TRUE, num_requests |-> 0,
     route |-> "", filename |-> "", uploads |-> <<>>, statuses |-> <<>>,
     status |-> "", resp |-> NoResponse, responses |-> <<>>, exc |-> "", last |-> "",
     i |-> 0]

\* the handler thread has ended: of the HTTPConnection only the count of its
\* requests is kept
ClosedConn(k) == [IdleConn EXCEPT !.pc = "closed", !.sock = "closed",
                                  !.num_requests = k.num_requests]

Running == main.pc # "done"

\* an if/elif chain that does not test req.method
RouteByPathOnly(r) ==
    IF r.dir = "/" /\ r.name \in {"index.html", ""} THEN "index"
    ELSE IF r.dir = "/" /\ r.name = "shared-files.html" THEN "shared_files"
    ELSE IF r.dir = "/view/" THEN "view"
    ELSE IF r.dir = "/download/" THEN "download"
    ELSE IF r.dir = "/" /\ r.name \in static_file_names THEN "static"
    ELSE IF r.dir = "/" /\ r.name = "delete" THEN "delete_form"
    ELSE IF r.dir = "/delete/" THEN "delete_url"
    ELSE IF r.dir = "/" /\ r.name = "upload" THEN "upload"
    ELSE IF r.dir = "/" /\ r.name = "dashboard.html" THEN "dashboard"
    ELSE "not_found"

\* the if/elif chain of handle_http_connection
Route(r) ==
    IF r.method = "GET" /\ r.dir = "/" /\ r.name \in {"index.html", ""} THEN "index"
    ELSE IF r.method = "GET" /\ r.dir = "/" /\ r.name = "shared-files.html" THEN "shared_files"
    ELSE IF r.method = "GET" /\ r.dir = "/view/" THEN "view"
    ELSE IF r.method = "GET" /\ r.dir = "/download/" THEN "download"
    ELSE IF r.method = "GET" /\ r.dir = "/" /\ r.name \in static_file_names THEN "static"
    ELSE IF r.method = "POST" /\ r.dir = "/" /\ r.name = "delete" THEN "delete_form"
    ELSE IF r.method = "POST" /\ r.dir = "/delete/" THEN "delete_url"
    ELSE IF r.method = "POST" /\ r.dir = "/" /\ r.name = "upload" THEN "upload"
    ELSE IF r.method = "GET" /\ r.dir = "/" /\ r.name = "dashboard.html" THEN "dashboard"
    ELSE "not_found"

\* an exception leaves the while loop: "except Exception as err: ... raise err"
\* an exception that ends the handler thread without its finally clause
FaultSkippingFinally(k, e) == ClosedConn(k)

Fault(k, e) == [k EXCEPT !.pc = "finally", !.exc = e]

\* a branch that goes back to the top of the loop without sending its response
RespondSkipped(k, code, status) == [k EXCEPT !.pc = "recv"]

\* a response is ready to be written by conn.sock.sendall
Respond(k, code, status) ==
    [k EXCEPT !.pc = "send", !.resp = Response(k.num_requests, code, status)]

\* the branch of the if/elif chain taken for request r, up to its first
\* access to shared state or to the socket
Dispatch(k, r) ==
    LET route == Route(r)
        kr == [k EXCEPT !.route = route]
    IN CASE route = "index" -> Respond(kr, 302, <<>>)
         [] route = "shared_files" -> [kr EXCEPT !.pc = "send_main_page"]
         [] route \in {"view", "download"} ->
                [kr EXCEPT !.pc = "send_share_file", !.filename = r.name]
         [] route = "static" -> [kr EXCEPT !.pc = "send_static_local_file"]
         [] route = "delete_form" ->
                LET v == Get(r.form_content, "filename") IN
                IF v.tag = "none" THEN Respond(kr, 302, <<NoFilenameForm>>)
                ELSE [kr EXCEPT !.pc = "remove_file", !.filename = v.str]
         [] route = "delete_url" -> [kr EXCEPT !.pc = "remove_file", !.filename = r.name]
         [] route = "upload" ->
                LET v == Get(r.form_content, "files") IN
                IF v.tag = "none" THEN Respond(kr, 302, <<NoFileForm>>)
                ELSE IF v.tag = "one" THEN Fault(kr, "TypeError")  \* len() of a MultipartFormData
                ELSE IF v.tag = "str" THEN Fault(kr, "AttributeError")
                ELSE IF Len(v.items) = 0 THEN Respond(kr, 302, <<NoFileForm>>)
                ELSE [kr EXCEPT !.pc = "add_file", !.uploads = v.items, !.statuses = <<>>]
         [] route = "dashboard" -> [kr EXCEPT !.pc = "send_dashboard_html"]
         [] OTHER -> Respond(kr, 404, <<>>)

\* an accept loop that joins each handler thread before it accepts again
AcceptAndJoin(c) ==
    /\ Running
    /\ listener.frontend = "accepting"
    /\ conn[c].pc = "idle"
    /\ \A d \in Conns : d < c => conn[d].pc = "closed"
    /\ conn' = [conn EXCEPT ![c] = [@ EXCEPT !.pc = "enter", !.sock = "open"]]
    /\ UNCHANGED <<registry_vars, stats_vars, lock_vars, server_vars>>
    /\ UNCHANGED <<echo, parsed>>
    /\ Nothing

\* accept_http_connections: one pass of the accept loop
accept_http_connections(c) ==
    /\ Running
    /\ listener.frontend = "accepting"
    /\ conn[c].pc = "idle"
    /\ \A d \in Conns : d < c => conn[d].pc # "idle"
    /\ conn' = [conn EXCEPT ![c] = [@ EXCEPT !.pc = "enter", !.sock = "open"]]
    /\ UNCHANGED <<registry_vars, stats_vars, lock_vars, server_vars>>
    /\ UNCHANGED <<echo, parsed>>
    /\ Nothing

\* an entry block that counts no connection
EnterWithoutCount(c) ==
    /\ Running
    /\ conn[c].pc = "enter"
    /\ stats_updates = Free
    /\ conn' = [conn EXCEPT ![c] = [@ EXCEPT !.pc = "recv", !.keep_alive = TRUE]]
    /\ UNCHANGED <<registry_vars, stats_vars, lock_vars, server_vars>>
    /\ UNCHANGED <<echo, parsed>>
    /\ Nothing

\* handle_http_connection, lines 442-449
handle_http_connection_enter(c) ==
    /\ Running
    /\ conn[c].pc = "enter"
    /\ stats_updates = Free
    /\ num_connections_so_far' = num_connections_so_far + 1
    /\ num_connections_now' = num_connections_now + 1
    /\ conn' = [conn EXCEPT ![c] = [@ EXCEPT !.pc = "recv", !.keep_alive = TRUE]]
    /\ UNCHANGED <<registry_vars, num_local_files, num_uploads, num_downloads,
                   lock_vars, server_vars>>
    /\ UNCHANGED <<echo, parsed>>
    /\ Did({"stats_updates"}, {"stats"}, {"stats_updates"})

\* the requests decoded so far on all HTTP connections; MaxRequests bounds
\* them together with the commands of the diagnostic connection
RECURSIVE SumRequests(_)
SumRequests(cs) == IF cs = {} THEN 0
                   ELSE LET c == CHOOSE x \in cs : TRUE
                        IN conn[c].num_requests + SumRequests(cs \ {c})
TotalRequests == SumRequests(Conns)

\* handle_http_connection, lines 450-526: receive one request and choose its route
handle_http_connection_recv(c, w, how) ==
    /\ Running
    /\ conn[c].pc = "recv"
    /\ w.eof \/ TotalRequests + backend.commands < MaxRequests
    /\ LET r == recv_one_request_from_client(w, how)
           k == [conn[c] EXCEPT !.last = IF w.eof THEN "eof"
                                         ELSE IF r.tag = "req" THEN "request"
                                         ELSE "malformed",
                                !.route = "", !.filename = "", !.status = ""]
       IN conn' = [conn EXCEPT ![c] =
              CASE r.tag = "none" -> [k EXCEPT !.pc = "finally"]
                [] r.tag = "raise" -> Fault(k, "DecodeError")
                [] OTHER -> Dispatch([k EXCEPT !.num_requests = @ + 1,
                                               !.keep_alive = r.keep_alive], r)]
    /\ UNCHANGED <<registry_vars, stats_vars, lock_vars, server_vars>>
    /\ UNCHANGED <<echo, parsed>>
    /\ Nothing

\* send_main_page: gather_shared_file_list under file_updates, then the page
send_main_page(c) ==
    /\ Running
    /\ conn[c].pc = "send_main_page"
    /\ file_updates = Free
    /\ conn' = [conn EXCEPT ![c] = Respond(@, 200, <<>>)]
    /\ UNCHANGED <<registry_vars, stats_vars, lock_vars, server_vars>>
    /\ UNCHANGED <<echo, parsed>>
    /\ Did({"file_updates"}, {"registry"}, {})

\* send_dashboard_html: the counters are read under stats_updates
send_dashboard_html(c) ==
    /\ Running
    /\ conn[c].pc = "send_dashboard_html"
    /\ stats_updates = Free
    /\ conn' = [conn EXCEPT ![c] = Respond(@, 200, <<>>)]
    /\ UNCHANGED <<registry_vars, stats_vars, lock_vars, server_vars>>
    /\ UNCHANGED <<echo, parsed>>
    /\ Did({"stats_updates"}, {"stats"}, {})

\* send_static_local_file: the file is read, or open() raises OSError
send_static_local_file(c, readable) ==
    /\ Running
    /\ conn[c].pc = "send_static_local_file"
    /\ conn' = [conn EXCEPT ![c] = Respond(@, IF readable THEN 200 ELSE 404, <<>>)]
    /\ UNCHANGED <<registry_vars, stats_vars, lock_vars, server_vars>>
    /\ UNCHANGED <<echo, parsed>>
    /\ Nothing

\* num_downloads counted without stats_updates
count_download_unlocked(c) ==
    /\ Running
    /\ conn[c].pc = "send_share_file"
    /\ num_downloads' = num_downloads + 1
    /\ conn' = [conn EXCEPT ![c] = [@ EXCEPT !.pc = "is_shared_file_stored_locally"]]
    /\ UNCHANGED <<registry_vars, num_connections_so_far, num_connections_now,
                   num_local_files, num_uploads, lock_vars, server_vars>>
    /\ UNCHANGED <<echo, parsed>>
    /\ Did({}, {"stats"}, {})

\* send_share_file, lines 366-369
send_share_file_stats(c) ==
    /\ Running
    /\ conn[c].pc = "send_share_file"
    /\ stats_updates = Free
    /\ num_downloads' = num_downloads + 1
    /\ conn' = [conn EXCEPT ![c] = [@ EXCEPT !.pc = "is_shared_file_stored_locally"]]
    /\ UNCHANGED <<registry_vars, num_connections_so_far, num_connections_now,
                   num_local_files, num_uploads, lock_vars, server_vars>>
    /\ UNCHANGED <<echo, parsed>>
    /\ Did({"stats_updates"}, {"stats"}, {"stats_updates"})

\* send_share_file, lines 372-376: filedata is assigned only when the file is
\* in the registry; "if filedata is None" then reads an unbound local
send_share_file_lookup(c) ==
    /\ Running
    /\ conn[c].pc = "is_shared_file_stored_locally"
    /\ file_updates = Free
    /\ conn' = [conn EXCEPT ![c] =
           IF conn[c].filename \in Range(local_file_names)
           THEN [@ EXCEPT !.pc = "get_share_file_locally"]
           ELSE Fault(@, "UnboundLocalError")]
    /\ UNCHANGED <<registry_vars, stats_vars, lock_vars, server_vars>>
    /\ UNCHANGED <<echo, parsed>>
    /\ Did({"file_updates"}, {"registry"}, {})

\* get_share_file_locally and send_share_file, lines 376-399
send_share_file_read(c) ==
    /\ Running
    /\ conn[c].pc = "get_share_file_locally"
    /\ conn' = [conn EXCEPT ![c] =
           IF share[conn[c].filename] # NoFile
           THEN Respond(@, 200, <<>>)
           ELSE Respond(@, 404, <<>>)]
    /\ UNCHANGED <<registry_vars, stats_vars, lock_vars, server_vars>>
    /\ UNCHANGED <<echo, parsed>>
    /\ Nothing

\* ------------------------------------------------ remove_file and add_file
\* remove_file, lines 110-123, on the registry and the share directory.
\* removed: whether os.remove succeeds.
remove_file_registry(c, removed) ==
    /\ Running
    /\ conn[c].pc = "remove_file"
    /\ file_updates = Free
    /\ LET filename == conn[c].filename IN
       IF filename \notin Range(local_file_names)
       THEN /\ conn' = [conn EXCEPT ![c] = [@ EXCEPT !.pc = "remove_file_stats",
                                                      !.status = NoSuchFile]]
            /\ UNCHANGED registry_vars
       ELSE LET i == IndexOf(local_file_names, filename) IN
            /\ local_file_names' = DelAt(local_file_names, i)
            /\ local_file_sizes' = DelAt(local_file_sizes, i)
            /\ IF removed /\ share[filename] # NoFile
               THEN /\ share' = [share EXCEPT ![filename] = NoFile]
                    /\ conn' = [conn EXCEPT ![c] = [@ EXCEPT !.pc = "remove_file_stats",
                                                              !.status = RemovedFile]]
               ELSE /\ share' = share
                    /\ conn' = [conn EXCEPT ![c] = [@ EXCEPT !.pc = "remove_file_stats",
                                                              !.status = ProblemRemoving]]
    /\ UNCHANGED <<stats_vars, lock_vars, server_vars>>
    /\ UNCHANGED <<echo, parsed>>
    /\ Did({"file_updates"}, {"registry"},
           IF conn[c].filename \in Range(local_file_names) THEN {"file_updates"} ELSE {})

\* remove_file, lines 124-128, and the redirect that carries its status
remove_file_stats(c) ==
    /\ Running
    /\ conn[c].pc = "remove_file_stats"
    /\ stats_updates = Free
    /\ num_local_files' = num_local_files - 1
    /\ conn' = [conn EXCEPT ![c] = Respond(@, 302, <<conn[c].status>>)]
    /\ UNCHANGED <<registry_vars, num_connections_so_far, num_connections_now,
                   num_uploads, num_downloads, lock_vars, server_vars>>
    /\ UNCHANGED <<echo, parsed>>
    /\ Did({"stats_updates"}, {"stats"}, {"stats_updates"})

\* add_file without the test of line 136
NameNeverTaken(filename) == FALSE

\* add_file, line 136: "if filename in local_file_names"
NameTaken(filename) == filename \in Range(local_file_names)

\* add_file, lines 135-137, for the next uploaded file of the request: the
\* thread enters "with file_updates" and tests the name; for a new name it goes
\* on to write the file, inside the with block
add_file_check(c) ==
    /\ Running
    /\ conn[c].pc = "add_file"
    /\ file_updates = Free
    /\ IF NameTaken(Head(conn[c].uploads).filename)
       THEN /\ conn' = [conn EXCEPT ![c] = [@ EXCEPT !.pc = "add_file_stats",
                                                      !.status = AlreadyThere]]
            /\ UNCHANGED file_updates
       ELSE /\ conn' = [conn EXCEPT ![c] = [@ EXCEPT !.pc = "add_file_write"]]
            /\ file_updates' = HttpThread(c)
    /\ UNCHANGED <<registry_vars, stats_vars, stats_updates, server_vars>>
    /\ UNCHANGED <<echo, parsed>>
    /\ Did({"file_updates"}, {"registry"}, {})

\* an add_file that appends to the lists although the write failed
add_file_recording_failure(c, stored) ==
    /\ Running
    /\ conn[c].pc = "add_file_write"
    /\ file_updates = HttpThread(c)
    /\ file_updates' = Free
    /\ LET upload == Head(conn[c].uploads) IN
       /\ share' = IF stored THEN [share EXCEPT ![upload.filename] = upload.len] ELSE share
       /\ local_file_names' = Append(local_file_names, upload.filename)
       /\ local_file_sizes' = Append(local_file_sizes, upload.len)
       /\ conn' = [conn EXCEPT ![c] = [@ EXCEPT !.pc = "add_file_stats",
                       !.status = IF stored THEN AddedFile ELSE ProblemStoring]]
    /\ UNCHANGED <<stats_vars, stats_updates, server_vars>>
    /\ UNCHANGED <<echo, parsed>>
    /\ Did({"file_updates"}, {"registry"}, {"file_updates"})

\* an add_file that updates the counters inside the "with file_updates" block
add_file_counting_inside(c, stored) ==
    /\ Running
    /\ conn[c].pc = "add_file_write"
    /\ file_updates = HttpThread(c)
    /\ stats_updates = Free
    /\ file_updates' = Free
    /\ LET upload == Head(conn[c].uploads) IN
       IF stored
       THEN /\ share' = [share EXCEPT ![upload.filename] = upload.len]
            /\ local_file_names' = Append(local_file_names, upload.filename)
            /\ local_file_sizes' = Append(local_file_sizes, upload.len)
            /\ conn' = [conn EXCEPT ![c] = [@ EXCEPT !.pc = "add_file_stats",
                                                      !.status = AddedFile]]
       ELSE /\ conn' = [conn EXCEPT ![c] = [@ EXCEPT !.pc = "add_file_stats",
                                                      !.status = ProblemStoring]]
            /\ UNCHANGED registry_vars
    /\ UNCHANGED <<stats_vars, stats_updates, server_vars>>
    /\ UNCHANGED <<echo, parsed>>
    /\ Did({"file_updates", "stats_updates"}, {"registry", "stats"},
           {"file_updates", "stats_updates"})

\* add_file, lines 139-148: open() and f.write(data), then the appends to the
\* lists; the with block ends and releases file_updates.
\* stored: whether open() and write() succeed.
add_file_registry(c, stored) ==
    /\ Running
    /\ conn[c].pc = "add_file_write"
    /\ file_updates = HttpThread(c)
    /\ file_updates' = Free
    /\ LET upload == Head(conn[c].uploads) IN
       IF stored
       THEN /\ share' = [share EXCEPT ![upload.filename] = upload.len]
            /\ local_file_names' = Append(local_file_names, upload.filename)
            /\ local_file_sizes' = Append(local_file_sizes, upload.len)
            /\ conn' = [conn EXCEPT ![c] = [@ EXCEPT !.pc = "add_file_stats",
                                                      !.status = AddedFile]]
       ELSE /\ conn' = [conn EXCEPT ![c] = [@ EXCEPT !.pc = "add_file_stats",
                                                      !.status = ProblemStoring]]
            /\ UNCHANGED registry_vars
    /\ UNCHANGED <<stats_vars, stats_updates, server_vars>>
    /\ UNCHANGED <<echo, parsed>>
    /\ Did({"file_updates"}, {"registry"}, IF stored THEN {"file_updates"} ELSE {})

\* add_file, lines 149-154, then the next upload or the redirect that carries
\* the combined status (handle_http_connection, lines 511-517)
add_file_stats(c) ==
    /\ Running
    /\ conn[c].pc = "add_file_stats"
    /\ stats_updates = Free
    /\ num_local_files' = num_local_files + 1
    /\ num_uploads' = num_uploads + 1
    /\ LET statuses == Append(conn[c].statuses, conn[c].status)
           rest == Tail(conn[c].uploads)
       IN conn' = [conn EXCEPT ![c] =
              IF rest = <<>>
              THEN Respond([@ EXCEPT !.uploads = <<>>, !.statuses = <<>>], 302, statuses)
              ELSE [@ EXCEPT !.pc = "add_file", !.uploads = rest, !.statuses = statuses]]
    /\ UNCHANGED <<registry_vars, num_connections_so_far, num_connections_now,
                   num_downloads, lock_vars, server_vars>>
    /\ UNCHANGED <<echo, parsed>>
    /\ Did({"stats_updates"}, {"stats"}, {"stats_updates"})

\* ------------------------------------- the response and the end of the loop
\* conn.sock.sendall(...), then the loop test "while conn.keep_alive".
\* written: whether sendall succeeds (it raises when the peer is gone).
send_response(c, written) ==
    /\ Running
    /\ conn[c].pc = "send"
    /\ conn' = [conn EXCEPT ![c] =
           IF written
           THEN [@ EXCEPT !.pc = IF conn[c].keep_alive THEN "recv" ELSE "finally",
                          !.responses = Append(@, conn[c].resp.n),
                          !.resp = NoResponse, !.route = "", !.filename = "",
                          !.status = ""]
           ELSE Fault([@ EXCEPT !.resp = NoResponse], "OSError")]
    /\ UNCHANGED <<registry_vars, stats_vars, lock_vars, server_vars>>
    /\ UNCHANGED <<echo, parsed>>
    /\ Nothing

\* the finally clause without "num_connections_now -= 1"
FinallyWithoutDecrement(c) ==
    /\ Running
    /\ conn[c].pc = "finally"
    /\ stats_updates = Free
    /\ conn' = [conn EXCEPT ![c] = ClosedConn(@)]
    /\ UNCHANGED <<registry_vars, stats_vars, lock_vars, server_vars>>
    /\ UNCHANGED <<echo, parsed>>
    /\ Nothing

\* handle_http_connection, lines 532-537
handle_http_connection_finally(c) ==
    /\ Running
    /\ conn[c].pc = "finally"
    /\ stats_updates = Free
    /\ num_connections_now' = num_connections_now - 1
    /\ conn' = [conn EXCEPT ![c] = ClosedConn(@)]
    /\ UNCHANGED <<registry_vars, num_connections_so_far, num_local_files,
                   num_uploads, num_downloads, lock_vars, server_vars>>
    /\ UNCHANGED <<echo, parsed>>
    /\ Did({"stats_updates"}, {"stats"}, {"stats_updates"})

\* ------------------------------------------------- the diagnostic connection
IdleBackend == [pc |-> "idle", sock |-> "none", commands |-> 0, exc |-> ""]

\* the lines a diagnostic client sends, after decode().strip()
BackendCommands == {"list-files", "stats", "bye", "die", "what", "byebye"}

\* str.startswith on the lines above
startswith(line, prefix) == line = prefix \/ <<line, prefix>> \in {<<"byebye", "bye">>}

\* lines 185-207: the branch of the if/elif chain that a line takes
BackendBranch(line) ==
    IF line = "list-files" THEN "list-files"
    ELSE IF startswith(line, "stats") THEN "stats"
    ELSE IF startswith(line, "bye") THEN "bye"
    ELSE IF startswith(line, "die") THEN "die"
    ELSE "else"

BackendFault(b, e) == [b EXCEPT !.pc = "finally", !.exc = e]

\* crash_updates.notify_all(): the main thread wakes up if it is waiting
NotifyCrash ==
    /\ crash_updates' = crash_updates + 1
    /\ main' = IF main.pc = "waiting" THEN [main EXCEPT !.pc = "cleanup"] ELSE main

\* accept_backend_connections: one pass of the accept loop
accept_backend_connections ==
    /\ Running
    /\ listener.backend = "accepting"
    /\ backend.pc = "idle"
    /\ backend' = [backend EXCEPT !.pc = "greet", !.sock = "open"]
    /\ UNCHANGED <<registry_vars, stats_vars, lock_vars, crash_updates, conn, listener, main>>
    /\ UNCHANGED <<echo, parsed>>
    /\ Nothing

\* handle_backend_connection, lines 171-182: the greeting and the prompt
handle_backend_connection_prompt(written) ==
    /\ Running
    /\ backend.pc \in {"greet", "prompt"}
    /\ backend' = IF written THEN [backend EXCEPT !.pc = "recv"]
                  ELSE BackendFault(backend, "OSError")
    /\ UNCHANGED <<registry_vars, stats_vars, lock_vars, crash_updates, conn, listener, main>>
    /\ UNCHANGED <<echo, parsed>>
    /\ Nothing

\* handle_backend_connection, lines 183-184: one command line, or the stream
\* closes and recv_until fails
handle_backend_connection_recv(line) ==
    /\ Running
    /\ backend.pc = "recv"
    /\ line = "eof" \/ TotalRequests + backend.commands < MaxRequests
    /\ backend' = IF line = "eof" THEN BackendFault(backend, "ConnectionClosed")
                  ELSE [backend EXCEPT !.pc = line, !.commands = @ + 1]
    /\ UNCHANGED <<registry_vars, stats_vars, lock_vars, crash_updates, conn, listener, main>>
    /\ UNCHANGED <<echo, parsed>>
    /\ Nothing

\* lines 185-190: gather_shared_file_list under file_updates, then the listing
handle_backend_connection_list_files(written) ==
    /\ Running
    /\ backend.pc \in BackendCommands /\ BackendBranch(backend.pc) = "list-files"
    /\ file_updates = Free
    /\ backend' = IF written THEN [backend EXCEPT !.pc = "prompt"]
                  ELSE BackendFault(backend, "OSError")
    /\ UNCHANGED <<registry_vars, stats_vars, lock_vars, crash_updates, conn, listener, main>>
    /\ UNCHANGED <<echo, parsed>>
    /\ Did({"file_updates"}, {"registry"}, {})

\* line 192: "with stats_updates:" is entered
handle_backend_connection_stats(b) ==
    /\ Running
    /\ backend.pc \in BackendCommands /\ BackendBranch(backend.pc) = "stats"
    /\ stats_updates = Free
    /\ stats_updates' = b
    /\ backend' = [backend EXCEPT !.pc = "stats_send"]
    /\ UNCHANGED <<registry_vars, stats_vars, file_updates, crash_updates, conn, listener, main>>
    /\ UNCHANGED <<echo, parsed>>
    /\ Did({"stats_updates"}, {}, {})

\* lines 193-198: the counters are written to the socket with the lock held;
\* the with block releases it, also when sendall raises
handle_backend_connection_stats_send(written) ==
    /\ Running
    /\ backend.pc = "stats_send"
    /\ stats_updates' = Free
    /\ backend' = IF written THEN [backend EXCEPT !.pc = "prompt"]
                  ELSE BackendFault(backend, "OSError")
    /\ UNCHANGED <<registry_vars, stats_vars, file_updates, crash_updates, conn, listener, main>>
    /\ UNCHANGED <<echo, parsed>>
    /\ Did({"stats_updates"}, {"stats"}, {})

\* lines 199-201: bye
handle_backend_connection_bye(written) ==
    /\ Running
    /\ backend.pc \in BackendCommands /\ BackendBranch(backend.pc) = "bye"
    /\ backend' = IF written THEN [backend EXCEPT !.pc = "finally"]
                  ELSE BackendFault(backend, "OSError")
    /\ UNCHANGED <<registry_vars, stats_vars, lock_vars, crash_updates, conn, listener, main>>
    /\ UNCHANGED <<echo, parsed>>
    /\ Nothing

\* lines 202-205: die
handle_backend_connection_die(written) ==
    /\ Running
    /\ backend.pc \in BackendCommands /\ BackendBranch(backend.pc) = "die"
    /\ IF written
       THEN /\ backend' = [backend EXCEPT !.pc = "prompt"]
            /\ NotifyCrash
       ELSE /\ backend' = BackendFault(backend, "OSError")
            /\ UNCHANGED <<crash_updates, main>>
    /\ UNCHANGED <<registry_vars, stats_vars, lock_vars, conn, listener>>
    /\ UNCHANGED <<echo, parsed>>
    /\ Did(IF written THEN {"crash_updates"} ELSE {}, {}, IF written THEN {"crash_updates"} ELSE {})

\* lines 206-207: any other command
handle_backend_connection_unknown(written) ==
    /\ Running
    /\ backend.pc \in BackendCommands /\ BackendBranch(backend.pc) = "else"
    /\ backend' = IF written THEN [backend EXCEPT !.pc = "prompt"]
                  ELSE BackendFault(backend, "OSError")
    /\ UNCHANGED <<registry_vars, stats_vars, lock_vars, crash_updates, conn, listener, main>>
    /\ UNCHANGED <<echo, parsed>>
    /\ Nothing

\* lines 211-213
handle_backend_connection_finally ==
    /\ Running
    /\ backend.pc = "finally"
    /\ backend' = [backend EXCEPT !.pc = "closed", !.sock = "closed"]
    /\ UNCHANGED <<registry_vars, stats_vars, lock_vars, crash_updates, conn, listener, main>>
    /\ UNCHANGED <<echo, parsed>>
    /\ Nothing

\* ------------------------------------------ accept threads and main thread
\* accept() raises on listening socket l: the except and finally clauses of
\* accept_http_connections / accept_backend_connections
accept_fails(l) ==
    /\ Running
    /\ listener[l] = "accepting"
    /\ listener' = [listener EXCEPT ![l] = "crashed"]
    /\ NotifyCrash
    /\ UNCHANGED <<registry_vars, stats_vars, lock_vars, conn, backend>>
    /\ UNCHANGED <<echo, parsed>>
    /\ Did({"crash_updates"}, {}, {"crash_updates"})

\* run_full_server, lines 604-613: the back-end socket and its accept thread
run_full_server_start_backend ==
    /\ main.pc = "start_backend"
    /\ main' = [main EXCEPT !.pc = "start_frontend"]
    /\ listener' = [listener EXCEPT !.backend = "accepting"]
    /\ UNCHANGED <<registry_vars, stats_vars, lock_vars, crash_updates, conn, backend>>
    /\ UNCHANGED <<echo, parsed>>
    /\ Nothing

\* run_full_server, lines 615-624: the front-end socket and its accept thread
run_full_server_start_frontend ==
    /\ main.pc = "start_frontend"
    /\ main' = [main EXCEPT !.pc = "wait"]
    /\ listener' = [listener EXCEPT !.frontend = "accepting"]
    /\ UNCHANGED <<registry_vars, stats_vars, lock_vars, crash_updates, conn, backend>>
    /\ UNCHANGED <<echo, parsed>>
    /\ Nothing

\* run_full_server, lines 626-628: crash_updates.wait()
run_full_server_wait ==
    /\ main.pc = "wait"
    /\ main' = [main EXCEPT !.pc = "waiting"]
    /\ UNCHANGED <<registry_vars, stats_vars, lock_vars, crash_updates, conn, listener, backend>>
    /\ UNCHANGED <<echo, parsed>>
    /\ Did({"crash_updates"}, {}, {})

\* run_full_server, lines 633-639: both listening sockets are closed and the
\* process ends
run_full_server_finally ==
    /\ main.pc = "cleanup"
    /\ main' = [main EXCEPT !.pc = "done"]
    /\ listener' = [l \in DOMAIN listener |-> "closed"]
    /\ UNCHANGED <<registry_vars, stats_vars, lock_vars, crash_updates, conn, backend>>
    /\ UNCHANGED <<echo, parsed>>
    /\ Nothing

\* ------------------------------------------------------------ echoserver.py
(* The bytes of a stream are "r" (CR), "n" (LF) and "k", a run of text with  *)
(* no line break in it; a header line that is exactly "k" is the line        *)
(* "Connection: keep-alive".                                                 *)
Bytes == {"k", "r", "n"}

RECURSIVE SeqsUpTo(_)
SeqsUpTo(n) == IF n = 0 THEN {<<>>}
               ELSE LET S == SeqsUpTo(n - 1)
                    IN S \cup {Append(s, b) : s \in {x \in S : Len(x) = n - 1}, b \in Bytes}

\* what a peer can send on one connection before it closes its side
Streams == SeqsUpTo(MaxStreamLen)

CRLFCRLF == <<"r", "n", "r", "n">>
LFLF == <<"n", "n">>

\* bytes.find(pat) + 1: the first position where pat starts, 0 if it is not in s
Find(s, pat) ==
    LET at == {i \in 1..(Len(s) - Len(pat) + 1) : SubSeq(s, i, i + Len(pat) - 1) = pat}
    IN IF at = {} THEN 0 ELSE CHOOSE i \in at : \A j \in at : i <= j

\* pat in s
Contains(s, pat) == Find(s, pat) # 0

\* s.split(pat, 1), for pat in s
SplitOnce(s, pat) ==
    [request |-> SubSeq(s, 1, Find(s, pat) - 1),
     unused_data |-> SubSeq(s, Find(s, pat) + Len(pat), Len(s))]

\* handle_one_http_request, line 28: the loop test
HasTerminator(data) == Contains(data, CRLFCRLF) \/ Contains(data, LFLF)

\* a split that throws away what follows the terminator
split_request_dropping_rest(data) ==
    [request |-> IF Contains(data, CRLFCRLF) THEN SplitOnce(data, CRLFCRLF).request
                 ELSE SplitOnce(data, LFLF).request,
     unused_data |-> <<>>]

\* handle_one_http_request, lines 38-41
split_request(data) ==
    IF Contains(data, CRLFCRLF) THEN SplitOnce(data, CRLFCRLF)
    ELSE SplitOnce(data, LFLF)

\* str.splitlines(): a line ends at "\r\n", "\r" or "\n"; no empty last line
RECURSIVE splitlines_from(_, _, _, _)
splitlines_from(s, i, cur, lines) ==
    IF i > Len(s) THEN (IF cur = <<>> THEN lines ELSE Append(lines, cur))
    ELSE IF s[i] = "r" /\ i < Len(s) /\ s[i + 1] = "n"
    THEN splitlines_from(s, i + 2, <<>>, Append(lines, cur))
    ELSE IF s[i] \in {"r", "n"}
    THEN splitlines_from(s, i + 1, <<>>, Append(lines, cur))
    ELSE splitlines_from(s, i + 1, Append(cur, s[i]), lines)

splitlines(s) == splitlines_from(s, 1, <<>>, <<>>)

\* get_header_value(headers, "Connection") = "keep-alive": the first header
\* line that starts with "connection: " decides
has_keepalive(headers) ==
    LET at == {i \in 1..Len(headers) : headers[i] # <<>>}
    IN at # {} /\ headers[CHOOSE i \in at : \A j \in at : i <= j] = <<"k">>

\* the requests handle_http_connection decodes when all the bytes of data are
\* in the buffer after a single recv
RECURSIVE single_read_requests(_)
single_read_requests(data) ==
    IF ~HasTerminator(data) THEN <<>>
    ELSE LET sp == split_request(data)
             lines == splitlines(sp.request)
         IN IF lines = <<>> THEN <<>>
            ELSE <<sp.request>> \o (IF has_keepalive(Tail(lines))
                                    THEN single_read_requests(sp.unused_data)
                                    ELSE <<>>)

\* SmartSocket.recv_until(delim) on a buffer: the bytes up to and including the
\* first delim; <<>> while delim has not arrived
recv_until(data, delim) ==
    IF Contains(data, delim) THEN SubSeq(data, 1, Find(data, delim) + Len(delim) - 1)
    ELSE <<>>

\* recv_one_request_from_client, lines 256-267, on a buffer: the first line of
\* the header block it receives; ok is FALSE while recv_until has no block and
\* when the split of line 267 raises
header_block(data) ==
    LET req == recv_until(data, CRLFCRLF)
    IN IF req = <<>> \/ ~Contains(req, <<"r", "n">>)
       THEN [ok |-> FALSE, firstline |-> <<>>]
       ELSE [ok |-> TRUE, firstline |-> SplitOnce(req, <<"r", "n">>).request]

EchoIdle ==
    [pc |-> "idle", sent |-> <<>>, wire |-> <<>>, data |-> <<>>, consumed |-> <<>>,
     n |-> 0, keep_alive |-> TRUE, requests |-> <<>>, exc |-> ""]

\* the bytes recv has returned so far
Received == SubSeq(echo.sent, 1, Len(echo.sent) - Len(echo.wire))

\* lines 119-124 and 76-83: a connection is accepted and its handler starts;
\* the peer will send the bytes of s and then close its side
echo_accept(s) ==
    /\ echo.pc \in {"idle", "closed"}
    /\ echo' = [EchoIdle EXCEPT !.pc = "recv", !.sent = s, !.wire = s, !.n = 1]
    /\ UNCHANGED <<registry_vars, stats_vars, lock_vars, server_vars, conn, parsed, step>>

\* handle_one_http_request, lines 28-36: no terminator in data, c.recv(4096)
\* returns the next j bytes; at the end of the stream it returns b"" (or
\* raises) and the function returns (False, data)
echo_recv(j) ==
    /\ echo.pc = "recv"
    /\ ~HasTerminator(echo.data)
    /\ IF echo.wire = <<>>
       THEN echo' = [echo EXCEPT !.pc = "close", !.keep_alive = FALSE]
       ELSE /\ j \in 1..Len(echo.wire)
            /\ echo' = [echo EXCEPT !.data = @ \o SubSeq(echo.wire, 1, j),
                                    !.wire = SubSeq(@, j + 1, Len(@))]
    /\ UNCHANGED <<registry_vars, stats_vars, lock_vars, server_vars, conn, parsed, step>>

\* handle_one_http_request, lines 38-74: the request is cut off the buffer and
\* answered; lines[0] raises IndexError when the request has no line, sendall
\* raises when the peer is gone (written = FALSE)
echo_answer(written) ==
    /\ echo.pc = "recv"
    /\ HasTerminator(echo.data)
    /\ LET sp == split_request(echo.data)
           lines == splitlines(sp.request)
           keep_alive == has_keepalive(Tail(lines))
       IN IF lines = <<>>
          THEN echo' = [echo EXCEPT !.pc = "close", !.exc = "IndexError"]
          ELSE IF ~written
          THEN echo' = [echo EXCEPT !.pc = "close", !.exc = "OSError"]
          ELSE echo' = [echo EXCEPT
                   !.pc = IF keep_alive THEN "recv" ELSE "close",
                   !.n = IF keep_alive THEN @ + 1 ELSE @,
                   !.keep_alive = keep_alive,
                   !.data = sp.unused_data,
                   !.consumed = @ \o sp.request
                                  \o (IF Contains(echo.data, CRLFCRLF) THEN CRLFCRLF ELSE LFLF),
                   !.requests = Append(@, sp.request)]
    /\ UNCHANGED <<registry_vars, stats_vars, lock_vars, server_vars, conn, parsed, step>>

\* handle_http_connection, lines 84-93: the socket is closed; the print of
\* line 93 then reads e, which is not bound there
echo_close ==
    /\ echo.pc = "close"
    /\ echo' = [EchoIdle EXCEPT !.pc = "closed", !.exc = "UnboundLocalError"]
    /\ UNCHANGED <<registry_vars, stats_vars, lock_vars, server_vars, conn, parsed, step>>

\* ------------------------------------------------------------ specification
\* run_full_server, lines 586-594: the registry is read from ./share/
InitialShares ==
    {[f \in ShareNames |-> NoFile],
     [f \in ShareNames |-> IF f = "a" THEN 1 ELSE NoFile]}

listdir(sh) == IF sh["a"] # NoFile THEN <<"a">> ELSE <<>>

Start ==
    /\ share \in InitialShares
    /\ local_file_names = listdir(share)
    /\ local_file_sizes = [i \in 1..Len(listdir(share)) |-> share[listdir(share)[i]]]
    /\ num_local_files = Len(listdir(share))
    /\ num_connections_so_far = 0
    /\ num_connections_now = 0
    /\ num_uploads = 0
    /\ num_downloads = 0
    /\ file_updates = Free
    /\ stats_updates = Free
    /\ crash_updates = 0
    /\ conn = [c \in Conns |-> IdleConn]
    /\ listener = [frontend |-> "none", backend |-> "none"]
    /\ main = [pc |-> "start_backend"]
    /\ backend = IdleBackend
    /\ echo = EchoIdle
    /\ parsed = NotParsed

Init == Start /\ step = NotRecorded

\* the requests that reach the registry: uploads, deletes, views
RegistryWires ==
    {Eof}
    \cup {Wire("GET", "/view/", f, KeepAlive) : f \in FileNames}
    \cup {Wire("POST", "/delete/", f, KeepAlive) : f \in FileNames}
    \cup {Multipart(Wire("POST", "/", "upload", KeepAlive), <<Upload(f, n)>>) :
              f \in FileNames, n \in {1, MaxDataLen}}

\* no connection is open: the client of HandlerSpec opens one connection at a time
Quiet == \A c \in Conns : conn[c].pc \in {"idle", "closed"}

StartNext ==
    \/ run_full_server_start_backend
    \/ run_full_server_start_frontend
    \/ run_full_server_wait

\* Spec: concurrent connections whose requests add, remove and view files
Next ==
    \/ StartNext
    \/ \E c \in Conns : accept_http_connections(c)
    \/ \E c \in Conns : handle_http_connection_enter(c)
    \/ \E c \in Conns, w \in RegistryWires : \E how \in RecvUntil(w) :
           handle_http_connection_recv(c, w, how)
    \/ \E c \in Conns : send_share_file_stats(c)
    \/ \E c \in Conns : send_share_file_lookup(c)
    \/ \E c \in Conns : send_share_file_read(c)
    \/ \E c \in Conns, removed \in BOOLEAN : remove_file_registry(c, removed)
    \/ \E c \in Conns : remove_file_stats(c)
    \/ \E c \in Conns : add_file_check(c)
    \/ \E c \in Conns, stored \in BOOLEAN : add_file_registry(c, stored)
    \/ \E c \in Conns : add_file_stats(c)
    \/ \E c \in Conns, written \in BOOLEAN : send_response(c, written)
    \/ \E c \in Conns : handle_http_connection_finally(c)

Spec == Init /\ [][Next]_vars

\* HandlerSpec: every route and every malformed request, one connection at a time
HandlerNext ==
    \/ StartNext
    \/ \E c \in Conns : Quiet /\ accept_http_connections(c)
    \/ \E c \in Conns : handle_http_connection_enter(c)
    \/ \E c \in Conns, w \in Wires \cup {Eof} : \E how \in RecvUntil(w) :
           handle_http_connection_recv(c, w, how)
    \/ \E c \in Conns : send_main_page(c)
    \/ \E c \in Conns : send_dashboard_html(c)
    \/ \E c \in Conns, readable \in BOOLEAN : send_static_local_file(c, readable)
    \/ \E c \in Conns : send_share_file_stats(c)
    \/ \E c \in Conns : send_share_file_lookup(c)
    \/ \E c \in Conns : send_share_file_read(c)
    \/ \E c \in Conns, removed \in BOOLEAN : remove_file_registry(c, removed)
    \/ \E c \in Conns : remove_file_stats(c)
    \/ \E c \in Conns : add_file_check(c)
    \/ \E c \in Conns, stored \in BOOLEAN : add_file_registry(c, stored)
    \/ \E c \in Conns : add_file_stats(c)
    \/ \E c \in Conns, written \in BOOLEAN : send_response(c, written)
    \/ \E c \in Conns : handle_http_connection_finally(c)

HandlerSpec == Init /\ [][HandlerNext]_vars

\* the requests of ServerSpec: the stream closes, or GET / with or without keep-alive
ServerWires == {Eof, Wire("GET", "/", "", KeepAlive), Wire("GET", "/", "", <<>>)}

MainNext ==
    \/ run_full_server_start_backend
    \/ run_full_server_start_frontend
    \/ run_full_server_wait
    \/ run_full_server_finally

BackendNext ==
    \/ accept_backend_connections
    \/ \E written \in BOOLEAN : handle_backend_connection_prompt(written)
    \/ \E line \in BackendCommands \cup {"eof"} : handle_backend_connection_recv(line)
    \/ \E written \in BOOLEAN : handle_backend_connection_list_files(written)
    \/ handle_backend_connection_stats(BackendThread)
    \/ \E written \in BOOLEAN : handle_backend_connection_stats_send(written)
    \/ \E written \in BOOLEAN : handle_backend_connection_bye(written)
    \/ \E written \in BOOLEAN : handle_backend_connection_die(written)
    \/ \E written \in BOOLEAN : handle_backend_connection_unknown(written)
    \/ handle_backend_connection_finally
    \/ \E l \in {"frontend", "backend"} : accept_fails(l)

\* ServerSpec: the whole process, with both accept threads and the diagnostic port
ServerNext ==
    \/ MainNext
    \/ BackendNext
    \/ \E c \in Conns : accept_http_connections(c)
    \/ \E c \in Conns : handle_http_connection_enter(c)
    \/ \E c \in Conns, w \in ServerWires : \E how \in RecvUntil(w) :
           handle_http_connection_recv(c, w, how)
    \/ \E c \in Conns, written \in BOOLEAN : send_response(c, written)
    \/ \E c \in Conns : handle_http_connection_finally(c)

ServerSpec == Init /\ [][ServerNext]_vars

\* AddSpec: every connection uploads one file, each under a name of its own,
\* into an empty registry
NameOf(c) == IF c = 1 THEN "a" ELSE IF c = 2 THEN "b" ELSE "c"

AddInit == Init /\ local_file_names = <<>>

AddNext ==
    \/ StartNext
    \/ \E c \in Conns : accept_http_connections(c)
    \/ \E c \in Conns : handle_http_connection_enter(c)
    \/ \E c \in Conns, n \in DataLens :
           /\ conn[c].num_requests = 0
           /\ handle_http_connection_recv(c,
                  Multipart(Wire("POST", "/", "upload", KeepAlive), <<Upload(NameOf(c), n)>>),
                  "data")
    \/ \E c \in Conns : add_file_check(c)
    \/ \E c \in Conns, stored \in BOOLEAN : add_file_registry(c, stored)
    \/ \E c \in Conns : add_file_stats(c)

AddSpec == AddInit /\ [][AddNext]_vars

\* ServerLive: ServerSpec with the scheduling of the threads: a thread that can
\* take a step of its own (one that waits for no peer) eventually takes it
ServerLive ==
    /\ ServerSpec
    /\ WF_vars(MainNext)
    /\ WF_vars(\E written \in BOOLEAN : handle_backend_connection_die(written))
    /\ WF_vars(handle_backend_connection_finally)
    /\ \A c \in Conns : WF_vars(handle_http_connection_enter(c))
    /\ \A c \in Conns : WF_vars(handle_http_connection_finally(c))

\* LockSpec: every route of the front end and every command of the diagnostic
\* port, with the record of locks and notifications switched on
LockInit == Start /\ step = [held |-> {}, read |-> {}, notified |-> {}]

\* the requests of LockSpec: one for each route that touches shared state
LockWires ==
    RegistryWires \cup {Wire("GET", "/", "shared-files.html", KeepAlive),
                        Wire("GET", "/", "dashboard.html", KeepAlive)}

LockNext ==
    \/ StartNext
    \/ BackendNext
    \/ \E c \in Conns : Quiet /\ accept_http_connections(c)
    \/ \E c \in Conns : handle_http_connection_enter(c)
    \/ \E c \in Conns, w \in LockWires : \E how \in RecvUntil(w) :
           handle_http_connection_recv(c, w, how)
    \/ \E c \in Conns : send_main_page(c)
    \/ \E c \in Conns : send_dashboard_html(c)
    \/ \E c \in Conns : send_share_file_stats(c)
    \/ \E c \in Conns : send_share_file_lookup(c)
    \/ \E c \in Conns : send_share_file_read(c)
    \/ \E c \in Conns, removed \in BOOLEAN : remove_file_registry(c, removed)
    \/ \E c \in Conns : remove_file_stats(c)
    \/ \E c \in Conns : add_file_check(c)
    \/ \E c \in Conns, stored \in BOOLEAN : add_file_registry(c, stored)
    \/ \E c \in Conns : add_file_stats(c)
    \/ \E c \in Conns, written \in BOOLEAN : send_response(c, written)
    \/ \E c \in Conns : handle_http_connection_finally(c)

LockSpec == LockInit /\ [][LockNext]_vars

\* ------------------------------------ the registry lists, one list at a time
(* add_file and remove_file change local_file_names and local_file_sizes in  *)
(* two statements; the actions below take them one statement at a time, so   *)
(* that the lists are out of step between the two, with file_updates held.   *)

\* zip(all_files, all_sizes): pairs up to the end of the shorter list
Zip(names, sizes) ==
    [j \in 1..(IF Len(names) < Len(sizes) THEN Len(names) ELSE Len(sizes))
        |-> <<names[j], sizes[j]>>]

\* a gather_shared_file_list that copies the lists without taking file_updates
gather_unlocked(c) ==
    /\ Running
    /\ conn[c].pc = "send_main_page"
    /\ parsed' = [fn |-> "gather_shared_file_list", input |-> <<>>,
                  output |-> Zip(local_file_names, local_file_sizes)]
    /\ conn' = [conn EXCEPT ![c] = Respond(@, 200, <<>>)]
    /\ UNCHANGED <<registry_vars, stats_vars, lock_vars, server_vars, echo>>
    /\ Nothing

\* gather_shared_file_list, lines 219-226, called by send_main_page (line 288):
\* both lists are copied inside one "with file_updates" block
gather_shared_file_list(c) ==
    /\ Running
    /\ conn[c].pc = "send_main_page"
    /\ file_updates = Free
    /\ parsed' = [fn |-> "gather_shared_file_list", input |-> <<>>,
                  output |-> Zip(local_file_names, local_file_sizes)]
    /\ conn' = [conn EXCEPT ![c] = Respond(@, 200, <<>>)]
    /\ UNCHANGED <<registry_vars, stats_vars, lock_vars, server_vars, echo>>
    /\ Nothing

\* add_file, lines 139-145: open() and f.write(data), then
\* local_file_names.append(filename); a failure leaves the with block
add_file_names(c, stored) ==
    /\ Running
    /\ conn[c].pc = "add_file_write"
    /\ file_updates = HttpThread(c)
    /\ LET upload == Head(conn[c].uploads) IN
       IF stored
       THEN /\ share' = [share EXCEPT ![upload.filename] = upload.len]
            /\ local_file_names' = Append(local_file_names, upload.filename)
            /\ conn' = [conn EXCEPT ![c] = [@ EXCEPT !.pc = "add_file_sizes"]]
            /\ UNCHANGED <<local_file_sizes, file_updates>>
       ELSE /\ conn' = [conn EXCEPT ![c] = [@ EXCEPT !.pc = "add_file_stats",
                                                      !.status = ProblemStoring]]
            /\ file_updates' = Free
            /\ UNCHANGED registry_vars
    /\ UNCHANGED <<stats_vars, stats_updates, server_vars>>
    /\ UNCHANGED <<echo, parsed>>
    /\ Nothing

\* add_file, lines 146-148: local_file_sizes.append(len(data)), notify_all, and
\* the end of the with block
add_file_sizes(c) ==
    /\ Running
    /\ conn[c].pc = "add_file_sizes"
    /\ file_updates = HttpThread(c)
    /\ file_updates' = Free
    /\ local_file_sizes' = Append(local_file_sizes, Head(conn[c].uploads).len)
    /\ conn' = [conn EXCEPT ![c] = [@ EXCEPT !.pc = "add_file_stats", !.status = AddedFile]]
    /\ UNCHANGED <<local_file_names, share, stats_vars, stats_updates, server_vars>>
    /\ UNCHANGED <<echo, parsed>>
    /\ Nothing

\* remove_file, lines 110-116: the test, index() and "del local_file_names[i]"
remove_file_names(c) ==
    /\ Running
    /\ conn[c].pc = "remove_file"
    /\ file_updates = Free
    /\ LET filename == conn[c].filename IN
       IF filename \notin Range(local_file_names)
       THEN /\ conn' = [conn EXCEPT ![c] = [@ EXCEPT !.pc = "remove_file_stats",
                                                      !.status = NoSuchFile]]
            /\ UNCHANGED <<local_file_names, file_updates>>
       ELSE LET i == IndexOf(local_file_names, filename) IN
            /\ local_file_names' = DelAt(local_file_names, i)
            /\ file_updates' = HttpThread(c)
            /\ conn' = [conn EXCEPT ![c] = [@ EXCEPT !.pc = "remove_file_sizes", !.i = i]]
    /\ UNCHANGED <<local_file_sizes, share, stats_vars, stats_updates, server_vars>>
    /\ UNCHANGED <<echo, parsed>>
    /\ Nothing

\* remove_file, lines 117-123: "del local_file_sizes[i]", os.remove, notify_all
\* and the end of the with block.  removed: whether os.remove succeeds.
remove_file_sizes(c, removed) ==
    /\ Running
    /\ conn[c].pc = "remove_file_sizes"
    /\ file_updates = HttpThread(c)
    /\ file_updates' = Free
    /\ local_file_sizes' = DelAt(local_file_sizes, conn[c].i)
    /\ LET ok == removed /\ share[conn[c].filename] # NoFile IN
       /\ share' = IF ok THEN [share EXCEPT ![conn[c].filename] = NoFile] ELSE share
       /\ conn' = [conn EXCEPT ![c] = [@ EXCEPT !.pc = "remove_file_stats", !.i = 0,
                       !.status = IF ok THEN RemovedFile ELSE ProblemRemoving]]
    /\ UNCHANGED <<local_file_names, stats_vars, stats_updates, server_vars>>
    /\ UNCHANGED <<echo, parsed>>
    /\ Nothing

\* RegistrySpec: concurrent connections that add files, remove files and ask
\* for the main page
ListingWires ==
    {Wire("GET", "/", "shared-files.html", KeepAlive)}
    \cup {Wire("POST", "/delete/", f, KeepAlive) : f \in FileNames}
    \cup {Multipart(Wire("POST", "/", "upload", KeepAlive), <<Upload(f, n)>>) :
              f \in FileNames, n \in {1, MaxDataLen}}

RegistryNext ==
    \/ StartNext
    \/ \E c \in Conns : accept_http_connections(c)
    \/ \E c \in Conns : handle_http_connection_enter(c)
    \/ \E c \in Conns, w \in ListingWires : handle_http_connection_recv(c, w, "data")
    \/ \E c \in Conns : gather_shared_file_list(c)
    \/ \E c \in Conns : remove_file_names(c)
    \/ \E c \in Conns, removed \in BOOLEAN : remove_file_sizes(c, removed)
    \/ \E c \in Conns : remove_file_stats(c)
    \/ \E c \in Conns : add_file_check(c)
    \/ \E c \in Conns, stored \in BOOLEAN : add_file_names(c, stored)
    \/ \E c \in Conns : add_file_sizes(c)
    \/ \E c \in Conns : add_file_stats(c)
    \/ \E c \in Conns, written \in BOOLEAN : send_response(c, written)

RegistrySpec == Init /\ [][RegistryNext]_vars

\* CountSpec: concurrent connections that end in each of the ways a handler
\* can end: the peer closes, the request is malformed, the request says
\* Connection: close, the route fails, the response cannot be written
CountWires ==
    {Eof,
     [Wire("GET", "/", "", KeepAlive) EXCEPT !.tokens = <<"GET">>],
     Wire("GET", "/", "", Close),
     Wire("GET", "/view/", "a", KeepAlive),
     Wire("GET", "/view/", "b", KeepAlive)}

CountNext ==
    \/ StartNext
    \/ \E c \in Conns : accept_http_connections(c)
    \/ \E c \in Conns : handle_http_connection_enter(c)
    \/ \E c \in Conns, w \in CountWires : \E how \in RecvUntil(w) :
           handle_http_connection_recv(c, w, how)
    \/ \E c \in Conns : send_share_file_stats(c)
    \/ \E c \in Conns : send_share_file_lookup(c)
    \/ \E c \in Conns : send_share_file_read(c)
    \/ \E c \in Conns, written \in BOOLEAN : send_response(c, written)
    \/ \E c \in Conns : handle_http_connection_finally(c)

CountSpec == Init /\ [][CountNext]_vars

\* LoopSpec: parse_multipart_form_data on bodies of bytes
LoopNext ==
    /\ parsed.fn = ""
    /\ \E boundary \in Boundaries : \E contents \in Bodies(boundary, MaxChunks) :
           parse_multipart_form_data_loop(boundary, contents)

LoopSpec == Init /\ [][LoopNext]_vars

\* EchoSpec: one connection of echoserver.py after another; its handler threads
\* share no state, so what one connection does is independent of the others
EchoNext ==
    \/ \E s \in Streams : echo_accept(s)
    \/ \E j \in 1..MaxStreamLen : echo_recv(j)
    \/ \E written \in BOOLEAN : echo_answer(written)
    \/ echo_close

EchoSpec == Init /\ [][EchoNext]_vars

\* handle_http_connection, line 452: one request is received and decoded
recv_one_request_from_client_call(w) ==
    /\ parsed.fn = ""
    /\ parsed' = [fn |-> "recv_one_request_from_client", input |-> w,
                  output |-> recv_one_request_from_client(w, "data")]
    /\ UNCHANGED <<registry_vars, stats_vars, lock_vars, server_vars, conn, echo, step>>

\* handle_http_connection, lines 450-526, for the first request of a
\* connection: the request is counted and the if/elif chain picks its branch
handle_request_call(w) ==
    /\ parsed.fn = ""
    /\ ~w.eof /\ DecodeError(w) = ""
    /\ parsed' = [fn |-> "handle_http_connection", input |-> w,
                  output |-> Dispatch([IdleConn EXCEPT !.pc = "recv", !.sock = "open",
                                                       !.num_requests = 1,
                                                       !.keep_alive = Decoded(w).keep_alive],
                                      Decoded(w))]
    /\ UNCHANGED <<registry_vars, stats_vars, lock_vars, server_vars, conn, echo, step>>

\* ParseSpec: the parsing functions of http_helpers.py, each called on the
\* inputs of a bounded set
ParseNext ==
    \/ parsed.fn = "" /\ \E ps \in PartSeqs(MaxParts) : parse_multipart_form_data_call(ps)
    \/ parsed.fn = "" /\ \E lines \in HeaderBlocks(MaxHeaderLines) : parse_http_headers_call(lines)
    \/ parsed.fn = "" /\ \E parts \in ParamStrings(MaxPairs) : parse_urlencoded_params_call(parts)
    \/ parsed.fn = "" /\ \E lines \in ConnectionBlocks : keep_alive_call(lines)
    \/ parsed.fn = "" /\ \E cl \in ContentLengths, stream \in BodyStreams : request_content_call(cl, stream)
    \/ parsed.fn = "" /\ \E w \in Wires : recv_one_request_from_client_call(w)
    \/ parsed.fn = "" /\ \E w \in Wires : handle_request_call(w)
    \/ parsed.fn = "" /\ \E ctype \in MultipartTypes, ps \in PartSeqs(1) :
                              multipart_form_content_call(ctype, ps)

ParseSpec == Init /\ [][ParseNext]_vars

\* ------------------------------------------------------------------ claims
\* handler c takes a step
Steps(c) == conn'[c] # conn[c]

\* C1: remove_file of a filename that is not in the registry returns the
\* "No such file" status and leaves the registry lists and every statistics
\* counter, num_local_files included, as they were.
C1_RemoveAbsentChangesNothing ==
    [][\A c \in Conns :
        /\ (conn[c].pc = "remove_file" /\ Steps(c)
            /\ conn[c].filename \notin Range(local_file_names))
           => (conn'[c].status = NoSuchFile /\ UNCHANGED <<registry_vars, stats_vars>>)
        /\ (conn[c].pc = "remove_file_stats" /\ Steps(c) /\ conn[c].status = NoSuchFile)
           => UNCHANGED <<registry_vars, stats_vars>>]_vars

\* C2: after concurrent add_file calls with pairwise distinct filenames that were
\* not in the registry have all returned, every file added with success is in
\* the registry exactly once with the length of its data, and num_local_files
\* has grown by exactly the number of adds that succeeded.
AllAddsReturned == \A c \in Conns : conn[c].pc = "send" /\ conn[c].route = "upload"
Succeeded == {c \in Conns : conn[c].resp.status = <<AddedFile>>}

C2_ConcurrentAddsCounted ==
    AllAddsReturned =>
        /\ \A c \in Succeeded :
               /\ Count(local_file_names, NameOf(c)) = 1
               /\ local_file_sizes[IndexOf(local_file_names, NameOf(c))] = share[NameOf(c)]
        /\ num_local_files = Cardinality(Succeeded)

\* C3: each of the five statistics counters is greater than or equal to zero in
\* every reachable state.
C3_CountersNonNegative ==
    /\ num_connections_so_far >= 0
    /\ num_connections_now >= 0
    /\ num_uploads >= 0
    /\ num_downloads >= 0
    /\ num_local_files >= 0

\* C4: the registry holds no filename twice, under any interleaving of add_file
\* and remove_file from concurrent handlers, two concurrent adds of one
\* filename included.
C4_FilenamesUnique ==
    \A f \in ShareNames : Count(local_file_names, f) <= 1

\* two handlers have added the same filename concurrently: one add got it in
C4_Witness ==
    \E c, d \in Conns :
        /\ c # d
        /\ conn[c].pc = "add_file_stats" /\ conn[c].status = AddedFile
        /\ conn[d].pc = "add_file_stats" /\ conn[d].status = AlreadyThere
        /\ Head(conn[c].uploads).filename = Head(conn[d].uploads).filename

\* C5: a GET /view/<name> or GET /download/<name> whose name is not in the
\* registry is answered with a 404 NOT FOUND response, and the connection is
\* not dropped because of it.
C5_MissingFileGets404 ==
    [][\A c \in Conns :
        (conn[c].pc = "is_shared_file_stored_locally" /\ Steps(c)
         /\ conn[c].filename \notin Range(local_file_names))
        => (conn'[c].pc = "send" /\ conn'[c].resp.code = 404 /\ conn'[c].exc = "")]_vars

\* C6: every decoded request that hits an application-level error (unknown
\* route, missing file, duplicate filename on add, missing file on remove,
\* storage failure) gets one well-formed response, a 404 or a redirect that
\* carries a status string, and the connection stays open when the request
\* asked for keep-alive.
WellFormedError(k) ==
    /\ k.pc = "send"
    /\ k.exc = ""
    /\ k.resp.n = k.num_requests
    /\ \/ k.resp.code = 404
       \/ k.resp.code = 302 /\ k.resp.status # <<>>

C6_ApplicationErrorsAnswered ==
    [][\A c \in Conns :
        \* unknown route
        /\ (conn[c].pc = "recv" /\ Steps(c) /\ conn'[c].route = "not_found")
           => WellFormedError(conn'[c])
        \* missing file on view or download
        /\ (conn[c].pc = "is_shared_file_stored_locally" /\ Steps(c)
            /\ conn[c].filename \notin Range(local_file_names))
           => WellFormedError(conn'[c])
        \* missing file on remove, storage failure on remove
        /\ (conn[c].pc = "remove_file_stats" /\ Steps(c)
            /\ conn[c].status \in {NoSuchFile, ProblemRemoving})
           => WellFormedError(conn'[c])
        \* duplicate filename on add, storage failure on add
        /\ (conn[c].pc = "add_file_stats" /\ Steps(c) /\ Len(conn[c].uploads) = 1
            /\ conn[c].status \in {AlreadyThere, ProblemStoring})
           => WellFormedError(conn'[c])
        \* the response written, the connection stays open on keep-alive
        /\ (conn[c].pc = "send" /\ Steps(c) /\ conn'[c].exc = "" /\ conn[c].keep_alive)
           => (conn'[c].pc = "recv" /\ conn'[c].sock = "open")]_vars

\* C7: a handler processes one request at a time: when it starts receiving
\* request k+1 the responses to requests 1..k have been written, in the order
\* the requests arrived, and no response is written before its request.
C7_NoPipelining ==
    \A c \in Conns :
        /\ Len(conn[c].responses) <= conn[c].num_requests
        /\ \A i \in 1..Len(conn[c].responses) : conn[c].responses[i] = i
        /\ conn[c].pc = "recv" => Len(conn[c].responses) = conn[c].num_requests
        /\ conn[c].pc \notin {"recv", "finally", "closed", "idle", "enter"}
           => Len(conn[c].responses) = conn[c].num_requests - 1

\* a handler awaits its third request after two answered ones
C7_Witness ==
    \E c \in Conns : conn[c].pc = "recv" /\ conn[c].responses = <<1, 2>>

\* C8: a handler leaves its loop exactly when (a) the stream closes while it
\* awaits a request, (b) the decoder reports a malformed request, (c) the
\* response is sent and keep-alive is false, or (d) a fault occurs; otherwise
\* it goes back to awaiting a request.  On each exit the socket is closed and
\* num_connections_now is decremented exactly once.
C8_ClosedExactlyWhen ==
    [][\A c \in Conns :
        \* the loop is left only for one of the four reasons
        /\ (conn[c].pc # "finally" /\ conn'[c].pc = "finally")
           => \/ conn[c].pc = "recv" /\ conn'[c].last \in {"eof", "malformed"}
              \/ conn[c].pc = "send" /\ ~conn[c].keep_alive
              \/ conn'[c].exc # ""
        \* and for each of them it is left
        /\ (conn[c].pc = "recv" /\ Steps(c) /\ conn'[c].last \in {"eof", "malformed"})
           => conn'[c].pc = "finally"
        /\ (conn[c].pc = "send" /\ Steps(c))
           => conn'[c].pc = IF conn'[c].exc = "" /\ conn[c].keep_alive
                            THEN "recv" ELSE "finally"
        \* the exit closes the socket and decrements once
        /\ (conn[c].pc = "finally" /\ Steps(c))
           => /\ conn'[c].pc = "closed"
              /\ conn'[c].sock = "closed"
              /\ num_connections_now' = num_connections_now - 1
        /\ conn[c].pc = "closed" => ~Steps(c)
        /\ num_connections_now' < num_connections_now
           => \E d \in Conns : conn[d].pc = "finally" /\ Steps(d)
        /\ conn[c].sock = "open" /\ conn'[c].sock # "open" => conn[c].pc = "finally"]_vars

\* one connection has been closed and a second one is about to be, with
\* keep-alive false after its response
C8_Witness ==
    \E c, d \in Conns :
        /\ conn[c].pc = "closed" /\ conn[c].num_requests = 1
        /\ conn[d].pc = "finally" /\ conn[d].last = "request" /\ conn[d].exc = ""
        /\ num_connections_so_far = 2 /\ num_connections_now = 1

\* C9: every error while decoding a request is reported by
\* recv_one_request_from_client as None and never escapes as an exception; the
\* handler then sends no response for that request and closes the connection.
C9_DecodeErrorsReported ==
    /\ \A w \in BadWires : \A how \in RecvUntil(w) :
           recv_one_request_from_client(w, how).tag = "none"
    /\ \A c \in Conns :
           conn[c].last = "malformed"
           => /\ conn[c].pc = "finally"
              /\ conn[c].exc = ""
              /\ conn[c].resp = NoResponse
              /\ Len(conn[c].responses) = conn[c].num_requests

\* a malformed request has arrived after a request that was answered
C9_Witness ==
    \E c \in Conns :
        conn[c].last = "malformed" /\ conn[c].num_requests = 1 /\ conn[c].responses = <<1>>

\* C10: when the peer closes its stream before the header terminator arrives,
\* the handler ends without an exception and closes its socket; no other
\* handler, neither accept thread nor the main thread is touched, and
\* crash_updates is not notified.
OthersUntouched(c) ==
    /\ \A d \in Conns \ {c} : conn'[d] = conn[d]
    /\ UNCHANGED <<listener, main, backend, crash_updates>>

C11_KeepAliveCountsOnce ==
    [][\A c \in Conns :
        \* the connection is counted once, when its handler starts
        /\ (conn[c].pc = "enter" /\ Steps(c))
           => /\ num_connections_so_far' = num_connections_so_far + 1
              /\ num_connections_now' = num_connections_now + 1
        /\ num_connections_so_far' # num_connections_so_far
           => \E d \in Conns : conn[d].pc = "enter" /\ Steps(d)
        /\ conn'[c].pc = "enter" => conn[c].pc \in {"idle", "enter"}
        \* each request adds one to the counter of its connection only
        /\ (conn[c].pc = "recv" /\ Steps(c) /\ conn'[c].last = "request")
           => /\ conn'[c].num_requests = conn[c].num_requests + 1
              /\ UNCHANGED <<num_connections_so_far, num_connections_now>>
        /\ conn'[c].num_requests # conn[c].num_requests
           => (conn[c].pc = "recv" /\ conn'[c].last = "request")
        \* after the response the same handler awaits the next request
        /\ (conn[c].pc = "send" /\ Steps(c) /\ conn[c].keep_alive /\ conn'[c].exc = "")
           => /\ conn'[c].pc = "recv" /\ conn'[c].sock = "open"
              /\ conn'[c].responses = Append(conn[c].responses, conn[c].num_requests)
              /\ UNCHANGED <<num_connections_so_far, num_connections_now>>]_vars

\* one connection has had MaxRequests keep-alive requests answered and has been
\* counted once
C11_Witness ==
    \E c \in Conns :
        /\ conn[c].pc = "recv" /\ conn[c].last = "request"
        /\ conn[c].num_requests = MaxRequests
        /\ Len(conn[c].responses) = MaxRequests
        /\ num_connections_so_far = 1 /\ num_connections_now = 1


\* C12: bytes received beyond the end of request k are never dropped: they stay
\* in the buffer and are the start of the buffer from which request k+1 is
\* parsed, so the bytes consumed so far followed by the bytes still buffered
\* are always the bytes received so far.
C12_LeftoverBytesKept ==
    [][/\ echo'.pc \in {"recv", "close"} => echo'.consumed \o echo'.data = Received'
       \* a read appends to the buffer
       /\ (echo.pc = "recv" /\ echo'.wire # echo.wire /\ echo'.pc = "recv")
          => \E j \in 1..Len(echo.wire) :
                 echo'.data = echo.data \o SubSeq(echo.wire, 1, j)
       \* a decoded request leaves what follows its terminator in the buffer
       /\ (echo.pc = "recv" /\ Len(echo'.requests) = Len(echo.requests) + 1)
          => \E term \in {CRLFCRLF, LFLF} :
                 echo.data = echo'.requests[Len(echo'.requests)] \o term \o echo'.data]_vars

\* after the first request the buffer already holds a whole second request
C12_Witness ==
    /\ echo.pc = "recv" /\ echo.n = 2 /\ Len(echo.requests) = 1
    /\ HasTerminator(echo.data)


\* C13: for every byte sequence and every way of cutting it into successive
\* reads, each decoded request is the one decoded when the same bytes arrive
\* in a single read.
C13_SplitReadsDecodeAlike ==
    \A i \in 1..Len(echo.requests) :
        /\ i <= Len(single_read_requests(echo.sent))
        /\ echo.requests[i] = single_read_requests(echo.sent)[i]


\* C14: the end of a header block is recognised both when it is CRLF-CRLF and
\* when it is bare LF-LF: the handler of echoserver.py stops reading and takes
\* the bytes before the terminator as the request, and the decoder of
\* http_helpers.py gets its header block from the same buffer.
C14_BothTerminatorsRecognised ==
    [][(echo.pc = "recv" /\ HasTerminator(echo.data) /\ echo' # echo)
       => /\ echo'.wire = echo.wire
          /\ echo'.exc = ""
             => \E term \in {CRLFCRLF, LFLF} :
                    echo.data = echo'.requests[Len(echo'.requests)] \o term \o echo'.data
          /\ header_block(echo.data).ok]_vars


\* C15: if accept fails on either listening socket at any moment after its
\* accept thread was started, also before the main thread waits on
\* crash_updates, the main thread eventually stops waiting and closes both
\* listening sockets: the process does not hang with a dead listener.
C15_AcceptFailureShutsDown ==
    (\E l \in {"frontend", "backend"} : listener[l] = "crashed")
        ~> (main.pc = "done" /\ \A l \in {"frontend", "backend"} : listener[l] = "closed")


\* C16: after a diagnostic client has sent the die command, crash_updates is
\* notified and the main thread eventually wakes up and closes both the
\* front-end and the back-end listening socket.
C16_DieShutsDown ==
    (backend.pc = "die")
        ~> (main.pc = "done" /\ \A l \in {"frontend", "backend"} : listener[l] = "closed")


\* C17: add_file never holds file_updates while it performs the blocking write
\* of the file's data to storage.
C17_NoWriteUnderFileLock ==
    \A c \in Conns : conn[c].pc = "add_file_write" => file_updates # HttpThread(c)


\* C18: once the accept threads run, every read and every write of the
\* registry lists is made by a thread that holds file_updates, every read and
\* write of the statistics counters by a thread that holds stats_updates, and
\* every mutation is followed by notify_all on that condition before the lock
\* is released.
C18_SharedStateUnderLocks ==
    [][/\ <<local_file_names, local_file_sizes>>' # <<local_file_names, local_file_sizes>>
          => ("file_updates" \in step'.held /\ "file_updates" \in step'.notified)
       /\ stats_vars' # stats_vars
          => ("stats_updates" \in step'.held /\ "stats_updates" \in step'.notified)
       /\ "registry" \in step'.read => "file_updates" \in step'.held
       /\ "stats" \in step'.read => "stats_updates" \in step'.held
       \* a thread that holds a lock in its step could take it, or had it
       /\ (step' # step /\ "file_updates" \in step'.held)
          => \/ file_updates = Free
             \/ \E c \in Conns : file_updates = HttpThread(c) /\ Steps(c)
       /\ (step' # step /\ "stats_updates" \in step'.held)
          => \/ stats_updates = Free
             \/ stats_updates = BackendThread /\ backend' # backend]_vars

\* a file has just been removed from the registry, with the lock held and the
\* condition notified, while the diagnostic connection is open
C18_Witness ==
    /\ step = [held |-> {"file_updates"}, read |-> {"registry"},
               notified |-> {"file_updates"}]
    /\ \E c \in Conns : conn[c].pc = "remove_file_stats" /\ conn[c].status = RemovedFile
    /\ backend.pc = "recv"

\* C19: the accept loops start one handler thread per connection and go back
\* to accept at once: while a handler is blocked reading from a silent peer it
\* holds no lock, the next connection can be accepted on either port, and
\* every connection accepted later can take its next step whenever the
\* statistics lock is free.
NextToAccept(d) ==
    /\ conn[d].pc = "idle"
    /\ \A e \in Conns : e < d => conn[e].pc # "idle"

HandlerStep(d) ==
    \/ handle_http_connection_enter(d)
    \/ \E w \in ServerWires : \E how \in RecvUntil(w) : handle_http_connection_recv(d, w, how)
    \/ \E written \in BOOLEAN : send_response(d, written)
    \/ handle_http_connection_finally(d)

C19_AcceptNeverWaits ==
    \A c \in Conns : (Running /\ conn[c].pc = "recv") =>
        /\ file_updates # HttpThread(c)
        /\ stats_updates # HttpThread(c)
        /\ (listener.backend = "accepting" /\ backend.pc = "idle")
           => ENABLED accept_backend_connections
        /\ \A d \in Conns \ {c} :
              /\ (listener.frontend = "accepting" /\ NextToAccept(d))
                 => ENABLED accept_http_connections(d)
              /\ (conn[d].pc \notin {"idle", "closed"} /\ stats_updates = Free)
                 => ENABLED HandlerStep(d)

\* the first connection has sent nothing and its handler waits in recv, and the
\* connection accepted after it has been answered
C19_Witness ==
    \E c, d \in Conns :
        /\ c < d
        /\ conn[c].pc = "recv" /\ conn[c].num_requests = 0
        /\ conn[d].pc = "recv" /\ Len(conn[d].responses) > 0
        /\ Running

\* C20: a POST /upload whose multipart body carries k >= 1 file parts under
\* the field of the upload form, written `files` or `files[]`, makes the
\* handler call add_file once per part in body order; a part whose filename is
\* new and whose data is stored makes the registry gain (filename, number of
\* data bytes); the one response is a 302 redirect whose status joins the k
\* statuses in order, with the Success status for each file added.
FileUpload(w, fields) ==
    /\ ~w.eof
    /\ DecodeError(w) = ""
    /\ w.tokens[1] = "POST" /\ w.dir = "/" /\ w.name = "upload"
    /\ Field("content-type", "multipart/form-data; boundary=X") \in Range(w.headers)
    /\ w.parts # <<>>
    /\ \A i \in 1..Len(w.parts) : w.parts[i].disp = "ok" /\ w.parts[i].field \in fields

UploadsAdded(fields) ==
    \A c \in Conns :
        \* the parts become the list of uploads, in body order
        /\ \A w \in Wires :
              (conn[c].pc = "recv" /\ Steps(c) /\ FileUpload(w, fields)
               /\ handle_http_connection_recv(c, w, "data"))
              => /\ conn'[c].pc = "add_file"
                 /\ conn'[c].statuses = <<>>
                 /\ conn'[c].uploads =
                        [i \in 1..Len(w.parts) |->
                            [filename |-> w.parts[i].filename, len |-> w.parts[i].len]]
        \* add_file of the first upload left: a new filename enters the registry
        /\ (conn[c].pc = "add_file" /\ Steps(c))
           => (conn'[c].pc = "add_file_stats")
              = (Head(conn[c].uploads).filename \in Range(local_file_names))
        /\ (conn[c].pc = "add_file_write" /\ Steps(c) /\ conn'[c].status # ProblemStoring)
           => /\ conn'[c].status = AddedFile
              /\ local_file_names' = Append(local_file_names, Head(conn[c].uploads).filename)
              /\ local_file_sizes' = Append(local_file_sizes, Head(conn[c].uploads).len)
        \* its status joins the list; after the last upload the redirect carries the list
        /\ (conn[c].pc = "add_file_stats" /\ Steps(c))
           => LET statuses == Append(conn[c].statuses, conn[c].status) IN
              IF Len(conn[c].uploads) > 1
              THEN /\ conn'[c].pc = "add_file"
                   /\ conn'[c].uploads = Tail(conn[c].uploads)
                   /\ conn'[c].statuses = statuses
              ELSE /\ conn'[c].pc = "send"
                   /\ conn'[c].resp = Response(conn[c].num_requests, 302, statuses)

C20_UploadAddsEachPart == [][UploadsAdded({"files", "files[]"})]_vars

\* C21: add_file of a filename that is already in the registry, or whose
\* write to storage fails, returns a status without raising and leaves the
\* registry lists as they were; remove_file of an absent filename returns a
\* status without raising.
Graceful(c, status) ==
    /\ conn'[c].status = status
    /\ conn'[c].exc = ""
    /\ conn'[c].sock = "open"
    /\ UNCHANGED <<local_file_names, local_file_sizes>>

C21_FailuresReturnStatus ==
    [][\A c \in Conns :
        \* the filename is already in the registry
        /\ (conn[c].pc = "add_file" /\ Steps(c)
            /\ Head(conn[c].uploads).filename \in Range(local_file_names))
           => (Graceful(c, AlreadyThere) /\ conn'[c].pc = "add_file_stats")
        \* the write fails: nothing is stored under the new name
        /\ (conn[c].pc = "add_file_write" /\ Steps(c)
            /\ share'[Head(conn[c].uploads).filename] = NoFile)
           => (Graceful(c, ProblemStoring) /\ conn'[c].pc = "add_file_stats")
        \* remove_file of an absent filename
        /\ (conn[c].pc = "remove_file" /\ Steps(c)
            /\ conn[c].filename \notin Range(local_file_names))
           => (Graceful(c, NoSuchFile) /\ conn'[c].pc = "remove_file_stats")
        \* the status is what the caller gets back and sends
        /\ (conn[c].pc \in {"add_file_stats", "remove_file_stats"} /\ Steps(c))
           => /\ conn'[c].exc = ""
              /\ conn'[c].pc = "send"
                 => conn'[c].resp.status[Len(conn'[c].resp.status)] = conn[c].status]_vars

\* both failures of add_file have happened: one connection is about to send
\* the status of a duplicate upload, another has the status of a failed write
C21_Witness ==
    \E c, d \in Conns :
        /\ conn[c].pc = "send" /\ conn[c].resp.status = <<AlreadyThere>>
        /\ conn[d].pc = "add_file_stats" /\ conn[d].status = ProblemStoring
        /\ conn[c].exc = "" /\ conn[d].exc = ""

\* C22: a multipart section whose Content-Disposition header is missing, does
\* not begin with form-data;, or holds no field name gets the default field
\* name and the default filename; the sections after it are parsed, the
\* request is decoded and its connection is not closed for it.
DefaultedSection(p) == p.disp \in {"missing", "bad", "noname"}

MalformedSections(w) ==
    /\ ~w.eof
    /\ w.tokens[1] = "POST" /\ w.dir = "/" /\ w.name = "upload"
    /\ Field("content-type", "multipart/form-data; boundary=X") \in Range(w.headers)
    /\ w.avail = SumLen(w.parts)
    /\ \E i \in 1..Len(w.parts) : DefaultedSection(w.parts[i])
    /\ \A i \in 1..Len(w.parts) : ~DefaultedSection(w.parts[i]) => w.parts[i].disp = "ok"

C22_MalformedSectionDefaults ==
    [][\A c \in Conns : \A w \in Wires :
        (conn[c].pc = "recv" /\ Steps(c) /\ MalformedSections(w)
         /\ handle_http_connection_recv(c, w, "data"))
        => LET d == Decoded(w).form_content
               last == CHOOSE i \in 1..Len(w.parts) :
                           /\ DefaultedSection(w.parts[i])
                           /\ \A j \in (i + 1)..Len(w.parts) : ~DefaultedSection(w.parts[j])
           IN /\ conn'[c].last = "request"
              /\ conn'[c].exc = ""
              /\ conn'[c].route = "upload"
              /\ Get(d, "field") = OneValue([filename |-> "unknown-file.txt",
                                             len |-> w.parts[last].len])
              /\ \A i \in 1..Len(w.parts) :
                    w.parts[i].disp = "ok"
                    => \E v \in Range(Get(d, StripBrackets(w.parts[i].field)).items) :
                           v = [filename |-> w.parts[i].filename, len |-> w.parts[i].len]]_vars

\* C23: decoding a well-formed multipart body, whose boundary occurs in no
\* part's data, yields exactly the (field name, filename, media type, bytes)
\* tuples it was built from, and building a body from the decoded parts and
\* decoding it again gives the same tuples.
Orderings(S) == {qs \in [1..Cardinality(S) -> S] : Range(qs) = S}

C23_MultipartRoundTrip ==
    parsed.fn = "parse_multipart_form_data" =>
        /\ parsed.output.ok
        /\ PartsOf(parsed.output.d) = Range(parsed.input)
        /\ \A qs \in Orderings(PartsOf(parsed.output.d)) :
              LET again == parse_multipart_contents(encode_multipart(qs))
              IN again.ok /\ PartsOf(again.d) = PartsOf(parsed.output.d)

\* C24: in multipart decoding all parts whose field name ends in [] are
\* collected, in body order, into one sequence stored under the name without
\* the suffix; of several parts with another field name only the last is kept.
AsDecoded(p) == [p EXCEPT !.filename = IF @ = NoName THEN DefaultFilename ELSE @]

PartsNamed(ps, n) == SelectSeq([i \in 1..Len(ps) |-> AsDecoded(ps[i])],
                               LAMBDA q : q.fieldname = n)

BracketsCollected(ps, out) ==
    /\ out.ok
    /\ \A i \in 1..Len(ps) :
          LET n == ps[i].fieldname IN
          IF EndsWithBrackets(n)
          THEN Get(out.d, StripBrackets(n)) = ListValue(PartsNamed(ps, n))
          ELSE Get(out.d, n) = OneValue(PartsNamed(ps, n)[Len(PartsNamed(ps, n))])

C24_BracketsAccumulate ==
    parsed.fn = "parse_multipart_form_data" => BracketsCollected(parsed.input, parsed.output)

\* C25: a header followed by n >= 1 continuation lines is decoded as one
\* value, the first line's value and each continuation line's stripped text
\* joined with exactly one ", " between consecutive pieces; header names are
\* matched without regard to case, and the values of a repeated name are
\* joined with ", " in the same way.
IsContinuation(line) == line[1] \in WhiteSpace
KeyOfLine(line) == LowerKey(strip(SubSeq(line, 1, FindFrom(line, <<":">>, 1) - 1)))

\* the header line that line i belongs to: itself, or the last header line above it
OwnerOf(lines, i) ==
    CHOOSE j \in 1..i : /\ ~IsContinuation(lines[j])
                        /\ \A m \in (j + 1)..i : IsContinuation(lines[m])

\* the stripped text a line contributes to its header's value
PieceOf(line) == IF IsContinuation(line) THEN strip(line)
                 ELSE strip(SubSeq(line, FindFrom(line, <<":">>, 1) + 1, Len(line)))

RECURSIVE JoinedPieces(_, _, _)
JoinedPieces(lines, k, i) ==
    IF i = 0 THEN [any |-> FALSE, val |-> <<>>]
    ELSE LET before == JoinedPieces(lines, k, i - 1) IN
         IF KeyOfLine(lines[OwnerOf(lines, i)]) # k THEN before
         ELSE [any |-> TRUE,
               val |-> IF before.any THEN before.val \o <<",", " ">> \o PieceOf(lines[i])
                       ELSE PieceOf(lines[i])]

C25_ContinuationsFold ==
    (parsed.fn = "parse_http_headers" /\ parsed.input # <<>>
     /\ ~IsContinuation(parsed.input[1]))
    => LET lines == parsed.input
           keys == {KeyOfLine(lines[OwnerOf(lines, i)]) : i \in 1..Len(lines)}
       IN /\ parsed.output.ok
          /\ DOMAIN parsed.output.d = keys
          /\ \A k \in keys :
                parsed.output.d[k] = JoinedPieces(lines, k, Len(lines)).val

\* a header with two continuation lines has been folded into one value
C25_Witness ==
    /\ parsed.fn = "parse_http_headers"
    /\ parsed.input = <<<<"Host", ":", " ", "v">>, <<" ", "c">>, <<"\t", " ", "c", "\t">>>>
    /\ parsed.output.ok
    /\ parsed.output.d[<<"host">>] = <<"v", ",", " ", "c", ",", " ", "c">>

\* C26: in a query string or URL-encoded body each key ending in [] maps,
\* under the key without the suffix, to the list of all its percent-decoded
\* values in order of occurrence, and every other key maps to the
\* percent-decoded value of its last occurrence, for any order and mix of
\* keys; decoding never fails.
ValuesOfKey(parts, key) ==
    LET with == SelectSeq(parts, LAMBDA q : q.eq /\ unquote_plus(q.key) = key)
    IN [i \in 1..Len(with) |-> unquote_plus(with[i].val)]

ParamsDecoded(parts, out) ==
    /\ out.ok
    /\ \A i \in 1..Len(parts) :
          LET key == unquote_plus(parts[i].key) IN
          parts[i].eq =>
              IF EndsInBrackets(key)
              THEN /\ WithoutBrackets(key) \in DOMAIN out.d
                   /\ out.d[WithoutBrackets(key)] = UrlList(ValuesOfKey(parts, key))
              ELSE /\ key \in DOMAIN out.d
                   /\ out.d[key] = UrlStr(ValuesOfKey(parts, key)[Len(ValuesOfKey(parts, key))])

C26_QueryKeysDecoded ==
    parsed.fn = "parse_urlencoded_params" => ParamsDecoded(parsed.input, parsed.output)

\* C27: a decoded request has keep_alive true if and only if it carries a
\* Connection header whose value equals keep-alive ignoring case; with no
\* Connection header or any other value keep_alive is false.
AsksKeepAlive(lines) ==
    \E i \in 1..Len(lines) :
        /\ KeyOfLine(lines[i]) = <<"connection">>
        /\ LowerKey(PieceOf(lines[i])) = <<"keep-alive">>

C27_KeepAliveIffHeader ==
    parsed.fn = "keep_alive" =>
        /\ parsed.output.req = AsksKeepAlive(parsed.input)
        /\ parsed.output.echoserver = AsksKeepAlive(parsed.input)

\* C28: the request body is exactly the Content-Length bytes that follow the
\* header terminator, and is empty when the header is absent or zero; the
\* bytes after them stay unread for the next request; when the stream ends
\* before that many bytes have arrived the request fails.
DeclaredLength(cl) == IF cl = "" THEN 0 ELSE CHOOSE n \in 0..(MaxDataLen + 1) : ToString(n) = cl

C28_BodyIsContentLength ==
    parsed.fn = "request_content" =>
        LET n == DeclaredLength(parsed.input.cl)
            stream == parsed.input.stream
        IN IF n <= Len(stream)
           THEN /\ parsed.output.ok
                /\ Len(parsed.output.content) = n
                /\ parsed.output.content \o parsed.output.rest = stream
           ELSE ~parsed.output.ok

\* a body of two bytes has been read and the byte of the next request that
\* had already arrived is still unread
C28_Witness ==
    /\ parsed.fn = "request_content"
    /\ parsed.input = [cl |-> "2", stream |-> <<"b", "b", "G">>]
    /\ parsed.output.ok
    /\ parsed.output.content = <<"b", "b">>
    /\ parsed.output.rest = <<"G">>

\* C29: a request whose Content-Type is absent, or is none of URL-encoded
\* form data, multipart form data, plain text and markup, is decoded with an
\* empty form-field mapping; its media type does not make it fail.
MediaTypeOf(w) ==
    LET h == parse_http_headers(w.headers).d
    IN IF "content-type" \in DOMAIN h THEN Lower(Single(h["content-type"])) ELSE ""

UnrecognizedBody(w) ==
    /\ ~w.eof
    /\ w.avail > 0
    /\ parse_http_headers(w.headers).ok
    /\ MediaTypeOf(w) \notin {"application/x-www-form-urlencoded", "multipart/form-data",
                              "multipart/form-data; charset=utf-8",
                              "multipart/form-data; boundary=X", "text/plain", "text/html"}

C29_UnknownMediaTypeDecodes ==
    (parsed.fn = "recv_one_request_from_client" /\ UnrecognizedBody(parsed.input))
    => /\ parsed.output.tag = "req"
       /\ parsed.output.content_length = parsed.input.avail
       /\ parsed.output.form_content = <<>>

\* an upload whose body is sent as image/png has been decoded, with its
\* method and path and no form fields
C29_Witness ==
    /\ parsed.fn = "recv_one_request_from_client"
    /\ MediaTypeOf(parsed.input) = "image/png"
    /\ parsed.input.parts # <<>>
    /\ parsed.output.tag = "req"
    /\ parsed.output.method = "POST" /\ parsed.output.name = "upload"
    /\ parsed.output.form_content = <<>>

\* C30: every decoded request takes exactly one route, chosen by its method
\* and path as the route table states: GET / and GET /index.html are answered
\* with a 302 whose Location is /shared-files.html, and a method and path that
\* match no listed route are answered with a 404.
RouteTable ==
    {[route |-> "index", method |-> "GET", dir |-> "/", names |-> {"", "index.html"}],
     [route |-> "dashboard", method |-> "GET", dir |-> "/", names |-> {"dashboard.html"}],
     [route |-> "shared_files", method |-> "GET", dir |-> "/", names |-> {"shared-files.html"}],
     [route |-> "view", method |-> "GET", dir |-> "/view/", names |-> FileNames],
     [route |-> "download", method |-> "GET", dir |-> "/download/", names |-> FileNames],
     [route |-> "static", method |-> "GET", dir |-> "/", names |-> static_file_names],
     [route |-> "delete_url", method |-> "POST", dir |-> "/delete/", names |-> FileNames],
     [route |-> "delete_form", method |-> "POST", dir |-> "/", names |-> {"delete"}],
     [route |-> "upload", method |-> "POST", dir |-> "/", names |-> {"upload"}]}

Listed(w) == {e \in RouteTable : /\ e.method = w.tokens[1]
                                 /\ e.dir = w.dir
                                 /\ w.name \in e.names}

\* where the handler is when it has entered the branch of a route
EntryOf(route) ==
    CASE route = "index" -> {"send"}
      [] route = "not_found" -> {"send"}
      [] route = "shared_files" -> {"send_main_page"}
      [] route = "dashboard" -> {"send_dashboard_html"}
      [] route \in {"view", "download"} -> {"send_share_file"}
      [] route = "static" -> {"send_static_local_file"}
      [] route \in {"delete_url", "delete_form"} -> {"remove_file", "send"}
      [] route = "upload" -> {"add_file", "send", "finally"}

C30_OneRoutePerRequest ==
    parsed.fn = "handle_http_connection" =>
        LET w == parsed.input
            k == parsed.output
        IN /\ Cardinality(Listed(w)) <= 1
           /\ \A e \in Listed(w) : k.route = e.route
           /\ k.pc \in EntryOf(k.route)
           /\ k.num_requests = 1
           /\ k.route = "index"
              => (k.pc = "send" /\ k.resp = Response(1, 302, <<>>) /\ k.exc = "")
           /\ Listed(w) = {}
              => (k.route = "not_found" /\ k.pc = "send"
                  /\ k.resp = Response(1, 404, <<>>) /\ k.exc = "")

\* POST / matches no route although GET / is listed: it has got a 404
C30_Witness ==
    /\ parsed.fn = "handle_http_connection"
    /\ parsed.input.tokens[1] = "POST" /\ parsed.input.dir = "/" /\ parsed.input.name = ""
    /\ parsed.output.route = "not_found"
    /\ parsed.output.resp.code = 404

\* ---------------------------------------------------------------------- C31
\* the commands the diagnostic port announces and the spec lists
KnownCommands == {"list-files", "stats", "bye", "die"}

\* C31: on the diagnostic port, bye closes that connection and nothing else
\* (no shutdown signal, listeners and HTTP connections untouched), and a line
\* that is none of the commands is answered with the error line, after which
\* the connection is open and prompts for the next command; only a failed
\* write to the peer ends it instead.
C31_ByeClosesUnknownContinues ==
    [][(backend' # backend /\ backend.pc \in BackendCommands \cup {"finally"})
        => /\ backend.pc = "bye"
                => /\ backend'.pc = "finally"
                   /\ UNCHANGED <<crash_updates, main, listener, conn>>
           /\ backend.pc = "finally"
                => /\ backend'.sock = "closed"
                   /\ UNCHANGED <<crash_updates, main, listener, conn>>
           /\ backend.pc \in BackendCommands \ KnownCommands
                => \/ backend'.pc = "prompt" /\ backend'.sock = "open"
                   \/ backend'.exc = "OSError"]_vars

\* ---------------------------------------------------------------------- C32
\* connections inside add_file or remove_file
InAddOrRemove ==
    {c \in Conns : conn[c].pc \in {"remove_file", "remove_file_stats", "add_file",
                                    "add_file_write", "add_file_stats"}}

\* C32: whenever no add_file or remove_file call is in progress,
\* num_local_files is the number of entries of the file registry, whatever the
\* calls before returned (added, name already there, storing failed, removed,
\* no such file).
C32_LocalFilesCountsRegistry ==
    InAddOrRemove = {} => num_local_files = Len(local_file_names)

\* ---------------------------------------------------------------------- C33
\* thread t is at a blocking read or write of its socket: recv_until or
\* sendall, which wait for as long as the peer neither sends nor reads
AtSocketIO(t) ==
    \/ /\ t = BackendThread
       /\ backend.pc \in {"greet", "prompt", "recv", "stats_send", "bye", "die"}
    \/ \E c \in Conns : t = HttpThread(c) /\ conn[c].pc \in {"recv", "send"}

\* C33: no thread is at a blocking socket read or write while it holds
\* stats_updates or file_updates, so a peer that stops reading cannot keep the
\* other handlers from taking either lock.
C33_NoSocketIOUnderLocks ==
    \A lock \in {stats_updates, file_updates} : lock # Free => ~AtSocketIO(lock)

\* ---------------------------------------------------------------------- C34
\* the handlers between the increment of line 446 and the decrement of line 535
Counted == {c \in Conns : conn[c].pc \notin {"idle", "enter", "closed"}}

\* C34: num_connections_now is the number of HTTP handlers that have passed
\* their opening increment and not yet their closing decrement, and
\* 0 <= num_connections_now <= num_connections_so_far, however the handlers end.
C34_ConnectionsNowCountsHandlers ==
    /\ num_connections_now = Cardinality(Counted)
    /\ 0 <= num_connections_now
    /\ num_connections_now <= num_connections_so_far

\* both handlers are leaving their loops and are still counted: one on a fault
\* inside a route, the other on a malformed request
C34_Witness ==
    /\ conn[1].pc = "finally" /\ conn[1].exc = "UnboundLocalError"
    /\ conn[2].pc = "finally" /\ conn[2].last = "malformed"
    /\ num_connections_now = 2
    /\ num_connections_so_far = 2

\* ---------------------------------------------------------------------- C35
\* the two lists describe the same files: they are equally long and the size at
\* each position is the size of the stored file named at that position
ListsInStep ==
    /\ Len(local_file_names) = Len(local_file_sizes)
    /\ \A j \in 1..Len(local_file_names) : local_file_sizes[j] = share[local_file_names[j]]

\* C35: whenever file_updates is free, local_file_names and local_file_sizes
\* are in step, and every listing that gather_shared_file_list returns is the
\* pairing of the two lists at a moment when they were in step, also while
\* other handlers are in the middle of add_file or remove_file.
C35_ListingIsSnapshot ==
    /\ [](file_updates = Free => ListsInStep)
    /\ [][(parsed' # parsed)
            => /\ ListsInStep
               /\ Len(parsed'.output) = Len(local_file_names)
               /\ \A j \in 1..Len(local_file_names) :
                      parsed'.output[j] = <<local_file_names[j], share[local_file_names[j]]>>]_vars

\* a listing with the file a has been returned, and the other handler is now
\* between the two statements of remove_file, with only the name deleted
C35_Witness ==
    /\ parsed.fn = "gather_shared_file_list"
    /\ parsed.output = <<<<"a", 1>>>>
    /\ \E c \in Conns : conn[c].pc = "remove_file_sizes"
    /\ Len(local_file_names) < Len(local_file_sizes)

\* ---------------------------------------------------------------------- C36
\* C36: no thread holds two of file_updates, stats_updates and crash_updates
\* at once: every step of a thread is made with at most one of them held, and
\* a thread that keeps a lock from one step to the next (add_file during the
\* file write, the stats command during its sends) can always take its next
\* step, which waits for no other lock; so no set of threads can deadlock.
C36_AtMostOneLock ==
    /\ Cardinality(step.held) <= 1
    /\ \A c \in Conns : file_updates = HttpThread(c)
           => /\ stats_updates # HttpThread(c)
              /\ ENABLED (\E stored \in BOOLEAN : add_file_registry(c, stored))
    /\ stats_updates = BackendThread
           => /\ file_updates # BackendThread
              /\ ENABLED (\E written \in BOOLEAN : handle_backend_connection_stats_send(written))

\* an HTTP handler holds file_updates for its file write while the diagnostic
\* thread holds stats_updates for its sends
C36_Witness ==
    /\ \E c \in Conns : file_updates = HttpThread(c) /\ conn[c].pc = "add_file_write"
    /\ stats_updates = BackendThread /\ backend.pc = "stats_send"

\* ---------------------------------------------------------------------- C37
\* connection c is inside send_share_file for a registered file that another
\* connection is removing: that connection's remove_file is about to take the
\* file out of the registry, or has taken it out and has not answered yet
ViewsWhileRemoved(c) ==
    /\ conn[c].pc \in {"send_share_file", "is_shared_file_stored_locally",
                       "get_share_file_locally"}
    /\ \E d \in Conns \ {c} :
          /\ conn[d].route \in {"delete_url", "delete_form"}
          /\ conn[d].filename = conn[c].filename
          /\ \/ conn[d].pc = "remove_file" /\ conn[d].filename \in Range(local_file_names)
             \/ conn[d].pc = "remove_file_stats" /\ conn[d].status # NoSuchFile

\* C37: a view or download of a file that another connection is removing is
\* answered with 200 (the file was read) or with 404, wherever the removal
\* falls between the registry check and the read, and its handler never fails.
C37_ViewDuringRemoveAnswered ==
    [][\A c \in Conns : (ViewsWhileRemoved(c) /\ Steps(c))
          => /\ conn'[c].exc = ""
             /\ conn'[c].pc = "send" => conn'[c].resp.code \in {200, 404}]_vars

\* ---------------------------------------------------------------------- C38
\* C38: parse_multipart_form_data terminates for every body and every
\* boundary: each pass of the section loop leaves strictly fewer bytes than
\* it found, also for a section with no empty line, a body with no further
\* boundary, and the empty boundary.
C38_SectionLoopShrinks ==
    parsed.fn = "parse_multipart_form_data: while"
        => \A i \in 1..(Len(parsed.output.passes) - 1) :
               len(parsed.output.passes[i + 1]) < len(parsed.output.passes[i])

\* with the empty boundary the loop has made two passes: the first cut a whole
\* section off the body, the second found no empty line after its section start
C38_Witness ==
    /\ parsed.fn = "parse_multipart_form_data: while"
    /\ parsed.input[1] = <<>>
    /\ Len(parsed.output.passes) = 3
    /\ parsed.output.passes[2] = <<"-", "-", "r", "n">>
    /\ parsed.output.passes[3] = <<"-", "-">>

\* ---------------------------------------------------------------------- C39
\* the Content-Type has no boundary parameter: it has no parameters at all, or
\* its first parameter is not boundary
NoBoundaryParameter(ctype) ==
    \/ ";" \notin Range(ctype)
    \/ \E i \in 1..Len(ctype) :
          /\ ctype[i] = ";" /\ \A j \in 1..(i - 1) : ctype[j] # ";"
          /\ LET first == strip(SubSeq(ctype, i + 1, Len(ctype)))
             IN first = <<>> \/ first[1] \notin {"boundary=", "Boundary="}

\* the boundary of the Content-Type is written in double quotes
QuotedBoundary(ctype) ==
    \E i \in 1..(Len(ctype) - 1) : ctype[i] \in {"boundary=", "Boundary="} /\ ctype[i + 1] = "\""

\* C39: a multipart/form-data request whose Content-Type has no boundary
\* parameter is decoded, with an empty form-field mapping, and not failed;
\* a boundary in double quotes is used without the quotes.
C39_MissingBoundaryDecodes ==
    parsed.fn = "recv_one_request_from_client: multipart"
        => LET ctype == parsed.input[1] IN
           /\ NoBoundaryParameter(ctype)
                => parsed.output.req = "HTTPRequest" /\ parsed.output.d = <<>>
           /\ QuotedBoundary(ctype)
                => /\ "\"" \notin Range(parsed.output.boundary)
                   /\ parsed.output =
                          multipart_form_content(<<"multipart/form-data", ";", " ",
                                                   "boundary=">> \o parsed.output.boundary,
                                                 encode_multipart(parsed.input[2]))

====
